---- MODULE Spec2Model ----
(***************************************************************************)
(* A model of the x402-agentpad SDK core: the AgentRunner execution loop   *)
(* and dispatcher (src/src/agent/agent-runner.ts, second AgentRunner),     *)
(* X402AIProvider.parseDecision and callModel (src/src/agent/              *)
(* ai-provider.ts) and X402LaunchClient.requestWithPayment                 *)
(* (src/src/client.ts).                                                    *)
(*                                                                         *)
(* Every `await` of the TypeScript source is a point where another task    *)
(* of the same process may run; one action of the model is the code        *)
(* between two such points.                                                *)
(***************************************************************************)
EXTENDS Integers, Sequences, FiniteSets, Bags, TLC

VARIABLES
    isRunning,      \* AgentRunner.isRunning
    isPaused,       \* AgentRunner.isPaused
    status,         \* AgentRunner.status.status
    executionMode,  \* X402LaunchClient.executionMode
    config,         \* AgentRunner.config (risk limits, immutable)
    balance,        \* AgentRunner.state.balance (atomic USDC)
    positions,      \* AgentRunner.state.positions (token of each position)
    launchedTokens, \* AgentRunner.state.launchedTokens
    loops,          \* the pending start() calls: a bag of their local states
    pay,            \* one X402LaunchClient.requestWithPayment() call
    mdl,            \* one X402AIProvider.callModel() call
    parse,          \* one X402AIProvider.parseDecision() call
    rpc,            \* the RobustProvider and one call() on it
    auth,           \* one createX402PaymentHeader() call and its header
    buy,            \* one X402LaunchClient.executeBuyTransaction() call
    router,         \* one OpenRouterProvider: its config, its retryCount
                    \* and its callModel() call
    stopped,        \* status.stoppedAt and the onStop hooks since the last
                    \* start(): "unset", written and fired by one stop()
                    \* ("stop"), or by a further one ("stop again")
    lastExecution,  \* status.lastExecution, which is also the last element
                    \* of state.executionHistory (1092-1094): "none", or
                    \* "success" / "failure" by its success field
    historyLength,  \* state.executionHistory.length, counted up to
                    \* MaxHistory: longer histories are not told apart
    winCount,       \* state.winCount and
    lossCount,      \* state.lossCount, each counted up to MaxTrades
    interval        \* the dynamic interval: state.currentIntervalMode,
                    \* state.fastModeExpiresAt, status.currentIntervalMode

vars == <<isRunning, isPaused, status, executionMode, config, balance,
          positions, launchedTokens, loops, pay, mdl, parse, rpc, auth,
          buy, router, stopped,
          lastExecution, historyLength, winCount, lossCount, interval>>

\* The request layers below the runner
Calls == <<pay, mdl, parse, rpc, auth, buy, router>>

\* What the loop keeps about its past results (AgentState, 807-822)
Tracked == <<historyLength, winCount, lossCount, interval>>

----------------------------------------------------------------------------
(* Bounds *)

\* start() calls whose executionLoop() has not returned yet
MaxLoops == 2

\* sellAllPositions() calls that have not returned yet
MaxSweeps == 1

\* entries of state.executionHistory the model counts
MaxHistory == 2

\* winning trades, and losing trades, the model counts
MaxTrades == 1
NumModels == 2
MaxCounted == 3

Tokens == {"0xaaa", "0xbbb"}

----------------------------------------------------------------------------
(* decision.params.usdcAmount: String(), parseFloat(), * 1e6, Math.floor(), *)
(* toString(), BigInt() (agent-runner.ts 1551-1563).  The products are     *)
(* those of IEEE-754 double arithmetic, tabulated for the inputs below:    *)
(*   parseFloat("8.2") = 8.199999999999999289...,  * 1e6 =                 *)
(*   8199999.999999999, and "8.2000000000000001" parses to the same double *)
(*   (the next double is 8.20000000000000106...);                          *)
(*   1e15 * 1e6 = 1e21, whose toString() is "1e+21": BigInt() throws.      *)

UsdcAmounts == {"0.5", "1", "8.2", "8.2000000000000001", "9", "abc", "-1", "1e15"}

\* isNaN(parseFloat(s))
ParsesToNaN(s) == s = "abc"

\* parseFloat(s) < 0
ParsesNegative(s) == s = "-1"

\* Math.floor(parseFloat(s) * 1e6).toString() is a decimal integer literal
FloorStringIsInteger(s) == s # "1e15"

\* Math.floor(parseFloat(s) * 1e6), in double arithmetic
FloorTimes1e6(s) ==
    CASE s = "0.5" -> 500000
      [] s = "1" -> 1000000
      [] s = "8.2" -> 8199999
      [] s = "8.2000000000000001" -> 8199999
      [] s = "9" -> 9000000
      [] OTHER -> 0

----------------------------------------------------------------------------
(* Configuration (AgentConfig, interfaces.ts 30-66) *)

\* this.config.maxPositions || 5
PositionLimit == IF config.maxPositions = 0 THEN 5 ELSE config.maxPositions

\* this.config.minBalanceUSDC || '10000'; -1 stands for an absent field
MinBalance == IF config.minBalanceUSDC = -1 THEN 10000 ELSE config.minBalanceUSDC

----------------------------------------------------------------------------
(* One pending start() or sellAllPositions() call: where it is suspended   *)
(* and its locals.                                                         *)
(*   op, tok, inp, amt, mode : the trading-client call in flight           *)
(*   gbal, gnpos : state.balance and positions.length when executeDecision *)
(*                 handled a buy or sent a call                            *)
(*   ok, act, err : success, action and error of the cycle's result        *)
(*   delivered, errors : onExecution / onError calls of this iteration     *)
(*   cb  : calls of config.onExecution among them                          *)
(*   net : requests of this cycle to the market endpoint, the model and    *)
(*         the trading client                                              *)
(*   recorded : results of this iteration pushed to executionHistory       *)
(*   shown : the recent actions listed in the prompt of this cycle         *)
(*   todo : the positions sellAllPositions() has still to go through       *)
(*   before, after : balanceBefore and balanceAfter of the cycle's result, *)
(*                   -1 while the result has no such field and once the    *)
(*                   loop has recorded it                                  *)

AtHead ==
    [pc |-> "head", op |-> "none", mode |-> "none", tok |-> "none",
     inp |-> "none", amt |-> 0, gbal |-> 0, gnpos |-> 0,
     ok |-> FALSE, act |-> "none", err |-> "none",
     delivered |-> 0, errors |-> 0, cb |-> 0, net |-> 0,
     recorded |-> 0, shown |-> <<>>, todo |-> <<>>,
     before |-> -1, after |-> -1]

At(r, p) == r.pc = p

\* the pending start() calls, as a set of local states
Pending == BagToSet(loops)

\* the call is inside executionLoop(), between iterations or in one
InLoop(r) ==
    r.pc \notin {"detectEth", "readEth", "entering", "sweepClient",
                 "sweepOnchain"}

\* the call is inside executeOneCycle() or recording its result
InCycle(r) ==
    r.pc \in {"getBalance", "market", "model", "client", "onchain",
                     "balanceAfter", "record", "execHook", "catchHooks"}

\* the decisions parseDecision can hand to executeDecision
\* (action, params.tokenAddress, params.usdcAmount or params.tokenAmount,
\* params.ticker); "none" is an absent parameter
Decision(a, t, x, k) ==
    [action |-> a, tokenAddress |-> t, amount |-> x, ticker |-> k]

----------------------------------------------------------------------------
(* AgentRunner.executeDecision up to its first await (1528-1746).          *)
(* Local(...) is an outcome returned without a client call, Call(...) a    *)
(* request handed to the trading client.                                   *)

Local(success, error) ==
    [kind |-> "local", ok |-> success, err |-> error,
     op |-> "none", tok |-> "none", inp |-> "none", amt |-> 0]

Call(o, t, i, a) ==
    [kind |-> "call", ok |-> FALSE, err |-> "none",
     op |-> o, tok |-> t, inp |-> i, amt |-> a]

\* if (buyAmount > maxPositionSize) buyAmount = maxPositionSize
ClampToMaxPositionSize(amount) ==
    IF amount > config.maxPositionSizeUSDC
    THEN config.maxPositionSizeUSDC
    ELSE amount

\* (mutant) the balance check left out
ExceedsBalance_unchecked(amount) == FALSE

\* buyAmount > BigInt(this.state.balance)
ExceedsBalance(amount) == amount > balance

executeBuy(d) ==
    IF d.tokenAddress = "none" \/ d.amount = "none"
    THEN Local(FALSE, "Missing buy parameters")
    ELSE IF Len(positions) >= PositionLimit    \* maxPositions || 5
    THEN Local(FALSE, "Maximum positions reached")
    ELSE IF ParsesToNaN(d.amount) \/ ParsesNegative(d.amount)
    THEN Local(FALSE, "Invalid usdcAmount format")
    ELSE IF ~FloorStringIsInteger(d.amount)
    THEN Local(FALSE, "Cannot convert to a BigInt")   \* thrown, caught at 1743
    ELSE LET buyAmount == ClampToMaxPositionSize(FloorTimes1e6(d.amount)) IN
         IF ExceedsBalance(buyAmount)
         THEN Local(FALSE, "Insufficient balance")
         ELSE Call("buy", d.tokenAddress, d.amount, buyAmount)

executeSell(d) ==
    IF d.tokenAddress = "none" \/ d.amount = "none"
    THEN Local(FALSE, "Missing sell parameters")
    ELSE IF ParsesToNaN(d.amount) \/ ParsesNegative(d.amount)
    THEN Local(FALSE, "Invalid tokenAmount format")
    ELSE Call("sell", d.tokenAddress, d.amount, 0)

\* (mutant) analyze without the parameter check
executeAnalyze_unchecked(d) == Call("analyze", d.tokenAddress, "none", 0)

executeAnalyze(d) ==
    IF d.tokenAddress = "none"
    THEN Local(FALSE, "Missing token address")
    ELSE Call("analyze", d.tokenAddress, "none", 0)

\* The characters of the ticker strings of the model
Chars(ticker) ==
    CASE ticker = "ab" -> <<"a", "b">>
      [] ticker = "abc" -> <<"a", "b", "c">>
      [] ticker = "Ab1" -> <<"A", "b", "1">>
      [] ticker = "a-c" -> <<"a", "-", "c">>
      [] ticker = "ab c" -> <<"a", "b", " ", "c">>
      [] ticker = "abcdefghij" ->
            <<"a", "b", "c", "d", "e", "f", "g", "h", "i", "j">>
      [] ticker = "abcdefghijk" ->
            <<"a", "b", "c", "d", "e", "f", "g", "h", "i", "j", "k">>

LowerCase == <<"a", "b", "c", "d", "e", "f", "g", "h", "i", "j", "k">>

UpperCase == <<"A", "B", "C", "D", "E", "F", "G", "H", "I", "J", "K">>

Digits == {"0", "1", "2", "3", "4", "5", "6", "7", "8", "9"}

\* String.prototype.toUpperCase on the characters above
toUpperCase(cs) ==
    [i \in 1..Len(cs) |->
        IF \E n \in 1..Len(LowerCase) : LowerCase[n] = cs[i]
        THEN UpperCase[CHOOSE n \in 1..Len(LowerCase) : LowerCase[n] = cs[i]]
        ELSE cs[i]]

\* (mutant) launchToken without the ticker test
MatchesTickerFormat_any(cs) == TRUE

\* /^[A-Z0-9]{3,10}$/.test(ticker) (client.ts 264)
MatchesTickerFormat(cs) ==
    /\ Len(cs) >= 3
    /\ Len(cs) <= 10
    /\ \A i \in 1..Len(cs) :
          cs[i] \in Digits \/ \E n \in 1..Len(UpperCase) : UpperCase[n] = cs[i]

\* name, ticker || symbol and description are present together or not.
\* launchToken() upper-cases the upper-cased ticker again and throws
\* INVALID_TICKER before it sends anything (client.ts 259-269); the catch of
\* executeDecision returns the failed outcome (1743-1745)
executeLaunch(d) ==
    IF d.ticker = "none"
    THEN Local(FALSE, "Missing launch parameters")
    ELSE IF ~MatchesTickerFormat(toUpperCase(toUpperCase(Chars(d.ticker))))
    THEN Local(FALSE, "Invalid ticker")
    ELSE Call("launch", "none", d.ticker, 0)

\* (mutant) an action without a case of the switch is refused
executeDecision_refusesUnknown(d) ==
    CASE d.action = "buy" -> executeBuy(d)
      [] d.action = "sell" -> executeSell(d)
      [] d.action = "launch" -> executeLaunch(d)
      [] d.action = "analyze" -> executeAnalyze(d)
      [] d.action \in {"discover", "wait"} -> Local(TRUE, "none")
      [] OTHER -> Local(FALSE, "Unknown action")

executeDecision(d) ==
    CASE d.action = "buy" -> executeBuy(d)
      [] d.action = "sell" -> executeSell(d)
      [] d.action = "launch" -> executeLaunch(d)
      [] d.action = "analyze" -> executeAnalyze(d)
      [] OTHER -> Local(TRUE, "none")     \* discover, wait, default

\* positions.findIndex(p => p.tokenAddress === token), then splice(index, 1)
\* (mutant) the newest position of the token is removed
RemoveFirst_newest(ps, t) ==
    LET hits == {i \in 1..Len(ps) : ps[i] = t}
    IN IF hits = {} THEN ps
       ELSE LET last == CHOOSE i \in hits : \A j \in hits : j <= i
            IN SubSeq(ps, 1, last - 1) \o SubSeq(ps, last + 1, Len(ps))

RECURSIVE RemoveFirst(_, _)
RemoveFirst(ps, t) ==
    IF ps = <<>> THEN <<>>
    ELSE IF Head(ps) = t THEN Tail(ps)
    ELSE <<Head(ps)>> \o RemoveFirst(Tail(ps), t)

\* (mutant) a full list keeps its entries and drops the new token
RecordLaunch_keepsOldest(ts, t) == IF Len(ts) >= 10 THEN ts ELSE Append(ts, t)

\* launchedTokens.push(address); if (length > 10) shift()
RecordLaunch(ts, t) ==
    LET pushed == Append(ts, t) IN
    IF Len(pushed) > 10 THEN Tail(pushed) ELSE pushed

----------------------------------------------------------------------------
(* Lifecycle calls of the embedding application (918-1046) *)

\* the call in local state r continues in local state q
SetLoop(r, q) == loops' = (loops (-) SetToBag({r})) (+) SetToBag({q})

\* the promise of the call in local state r settles
Return(r) == loops' = loops (-) SetToBag({r})

\* start(): throws when already running; otherwise sets the flags and, for an
\* explicit mode, the client's mode, and suspends in determineExecutionMode
\* (mutant) start() without its guard
AlreadyRunning_unchecked == FALSE

\* if (this.isRunning) throw new Error('Agent is already running')
AlreadyRunning == isRunning

start ==
    \/ /\ AlreadyRunning
       /\ UNCHANGED vars
    \/ /\ ~AlreadyRunning
       /\ BagCardinality(loops) < MaxLoops
       /\ loops' = loops (+) SetToBag({[AtHead EXCEPT !.pc =
              IF config.executionMode = "auto" THEN "detectEth" ELSE "entering"]})
       /\ isRunning' = TRUE
       /\ isPaused' = FALSE
       /\ status' = "running"
       /\ executionMode' =
            IF config.executionMode = "auto" THEN executionMode
            ELSE config.executionMode
       /\ stopped' = "unset"
       /\ UNCHANGED <<Calls, lastExecution, Tracked>>
       /\ UNCHANGED <<config, balance, positions, launchedTokens>>

\* determineExecutionMode: hasEnoughEthForSelfExecute() returned
hasEnoughEthReturns(r, hasEth) ==
    /\ At(r, "detectEth")
    /\ executionMode' = IF hasEth THEN "self-execute" ELSE "gasless"
    /\ SetLoop(r, [r EXCEPT !.pc = "readEth"])
    /\ UNCHANGED <<Calls, stopped, lastExecution, Tracked>>
    /\ UNCHANGED <<isRunning, isPaused, status, config, balance, positions,
                   launchedTokens>>

\* determineExecutionMode: an ETH balance query threw; start() rejects
ethQueryThrows(r) ==
    /\ r.pc \in {"detectEth", "readEth"}
    /\ Return(r)
    /\ UNCHANGED <<Calls, stopped, lastExecution, Tracked>>
    /\ UNCHANGED <<isRunning, isPaused, status, executionMode, config, balance,
                   positions, launchedTokens>>

\* determineExecutionMode returned and the onStart hooks have run:
\* executionLoop() is entered.  No dashboardUrl is configured, so
\* this.dashboard is undefined (839-842) and nothing is notified.
enterLoop(r) ==
    /\ r.pc \in {"readEth", "entering"}
    /\ SetLoop(r, [r EXCEPT !.pc = "head"])
    /\ UNCHANGED <<Calls, stopped, lastExecution, Tracked>>
    /\ UNCHANGED <<isRunning, isPaused, status, executionMode, config, balance,
                   positions, launchedTokens>>

\* stop() writes status.stoppedAt and calls the onStop hooks whatever
\* the state it finds (988-1001)
stop ==
    /\ isRunning' = FALSE
    /\ status' = "stopped"
    /\ stopped' = IF stopped = "unset" THEN "stop" ELSE "stop again"
    /\ UNCHANGED <<Calls, lastExecution, Tracked>>
    /\ UNCHANGED <<isPaused, executionMode, config, balance, positions,
                   launchedTokens, loops>>

\* The runner's flags, status and portfolio
RunnerState ==
    [isPaused |-> isPaused, isRunning |-> isRunning, status |-> status,
     balance |-> balance, positions |-> positions]

\* (mutant) pause() as a toggle
AfterPause_toggled(s) ==
    [s EXCEPT !.isPaused = ~s.isPaused,
              !.status = IF s.isPaused THEN "running" ELSE "paused"]

\* What pause() writes (1014-1015)
AfterPause(s) == [s EXCEPT !.isPaused = TRUE, !.status = "paused"]

pause ==
    /\ isPaused' = AfterPause(RunnerState).isPaused
    /\ status' = AfterPause(RunnerState).status
    /\ UNCHANGED <<Calls, stopped, lastExecution, Tracked>>
    /\ UNCHANGED <<isRunning, executionMode, config, balance, positions,
                   launchedTokens, loops>>

\* resume(): throws when not running
resume ==
    \/ /\ ~isRunning
       /\ UNCHANGED vars
    \/ /\ isRunning
       /\ isPaused' = FALSE
       /\ status' = "running"
       /\ UNCHANGED <<Calls, stopped, lastExecution, Tracked>>
       /\ UNCHANGED <<isRunning, executionMode, config, balance, positions,
                      launchedTokens, loops>>

----------------------------------------------------------------------------
(* ExecutionPhase (interfaces.ts 13-26).  status.currentPhase is declared  *)
(* (interfaces.ts 174) and config.onPhaseChange is accepted (interfaces.ts *)
(* 68); no statement of AgentRunner assigns the one or calls the other, so *)
(* both keep the value they have after construction.                       *)

\* status.currentPhase; "unset" is undefined
currentPhase == "unset"

\* the phases handed to config.onPhaseChange so far
phaseChanges == <<>>

----------------------------------------------------------------------------
(* AgentRunner.executionLoop (1065-1177) and executeOneCycle (1392-1505) *)

Runner == <<isRunning, isPaused, status, executionMode, config, balance,
            positions, launchedTokens, stopped, lastExecution, Tracked>>

Shared == <<Runner, Calls>>

(* The dynamic interval (1182-1281).  iv is the interval record:           *)
(*   mode              : this.state.currentIntervalMode                     *)
(*   fastModeExpiresAt : "unset" (undefined), "future" (later than          *)
(*                       Date.now()) or "past" (earlier than Date.now())    *)
(*   reported          : this.status.currentIntervalMode, which getStatus() *)
(*                       returns                                            *)

\* config.dynamicInterval is "none" (absent) or the name of a preset:
\* triggerFastOn and triggerSlowOn of the dynamicInterval of each preset
IntervalPresets ==
    [aggressive |->
         [triggerFastOn |-> {"trade_executed", "new_token", "high_volume"},
          triggerSlowOn |-> {"low_volume", "low_balance"}],
     balanced |->
         [triggerFastOn |-> {"trade_executed", "position_change"},
          triggerSlowOn |-> {"low_volume", "outside_hours",
                             "holding_positions"}],
     conservative |->
         [triggerFastOn |-> {"position_change"},
          triggerSlowOn |-> {"low_volume", "outside_hours",
                             "holding_positions", "low_balance"}]]

triggerFastMode(iv) ==
    IF config.dynamicInterval = "none"
    THEN iv
    ELSE [mode |-> "fast", fastModeExpiresAt |-> "future", reported |-> "fast"]

triggerSlowMode(iv) ==
    IF iv.mode = "fast"
    THEN iv
    ELSE [iv EXCEPT !.mode = "slow", !.reported = "slow"]

\* getCurrentInterval(): the expiry of fast mode; the number it returns is
\* chosen by iv.mode
getCurrentInterval(iv) ==
    IF config.dynamicInterval = "none"
    THEN iv
    ELSE IF iv.fastModeExpiresAt = "past"
    THEN [iv EXCEPT !.mode = "base", !.fastModeExpiresAt = "unset"]
    ELSE iv

\* adjustIntervalBasedOnResult(result), with this.state.positions and
\* this.state.balance as the cycle left them
adjustIntervalBasedOnResult(iv, result) ==
    IF config.dynamicInterval = "none"
    THEN iv
    ELSE LET dynamicConfig == IntervalPresets[config.dynamicInterval]
             launched == IF result.ok /\ result.act = "launch"
                         THEN triggerFastMode(iv) ELSE iv
             traded == IF /\ result.ok /\ result.act \in {"buy", "sell"}
                          /\ "trade_executed" \in dynamicConfig.triggerFastOn
                       THEN triggerFastMode(launched) ELSE launched
             changed == IF /\ result.act \in {"buy", "sell"}
                           /\ "position_change" \in dynamicConfig.triggerFastOn
                        THEN triggerFastMode(traded) ELSE traded
             holding == IF /\ Len(positions) > 0
                           /\ "holding_positions" \in dynamicConfig.triggerSlowOn
                           /\ changed.mode # "fast"
                        THEN triggerSlowMode(changed) ELSE changed
             minBalance == IF config.minBalanceUSDC = -1
                           THEN 500000 ELSE config.minBalanceUSDC
         IN IF /\ balance < minBalance * 2
               /\ "low_balance" \in dynamicConfig.triggerSlowOn
            THEN triggerSlowMode(holding) ELSE holding

\* Date.now() passes this.state.fastModeExpiresAt
fastModeElapses ==
    /\ interval.fastModeExpiresAt = "future"
    /\ interval' = [interval EXCEPT !.fastModeExpiresAt = "past"]
    /\ UNCHANGED <<isRunning, isPaused, status, executionMode, config, balance,
                   positions, launchedTokens, loops, Calls, stopped,
                   lastExecution, historyLength, winCount, lossCount>>

\* (mutant) the top of an iteration without the pause check
loopHead_unpaused(r, withinHours) ==
    /\ At(r, "head")
    /\ IF ~isRunning
       THEN Return(r) /\ UNCHANGED interval
       ELSE IF ~withinHours
       THEN /\ interval' = triggerSlowMode(interval)
            /\ SetLoop(r, [r EXCEPT !.pc = "skipSleep"])
       ELSE SetLoop(r, [r EXCEPT !.pc = "getBalance"]) /\ UNCHANGED interval
    /\ UNCHANGED <<Calls, stopped, lastExecution, historyLength, winCount,
                   lossCount>>
    /\ UNCHANGED <<isRunning, isPaused, status, executionMode, config, balance,
                   positions, launchedTokens>>

\* The top of an iteration: while (this.isRunning), the pause check, the
\* working-hours check, and the start of executeOneCycle() up to the await
\* in getBalance().  withinHours is isWithinWorkingHours().
loopHead(r, withinHours) ==
    /\ At(r, "head")
    /\ IF ~isRunning
       THEN Return(r) /\ UNCHANGED interval
       ELSE IF isPaused
       THEN SetLoop(r, [r EXCEPT !.pc = "skipSleep"]) /\ UNCHANGED interval
       ELSE IF ~withinHours
       THEN /\ interval' = triggerSlowMode(interval)
            /\ SetLoop(r, [r EXCEPT !.pc = "skipSleep"])
       ELSE SetLoop(r, [r EXCEPT !.pc = "getBalance"]) /\ UNCHANGED interval
    /\ UNCHANGED <<Calls, stopped, lastExecution, historyLength, winCount,
                   lossCount>>
    /\ UNCHANGED <<isRunning, isPaused, status, executionMode, config, balance,
                   positions, launchedTokens>>

\* sleep(1000), sleep(60000) or sleep(nextInterval) is over
wake(r) ==
    /\ r.pc \in {"skipSleep", "sleep"}
    /\ SetLoop(r, AtHead)
    /\ UNCHANGED Shared

\* The cycle's result when the low-balance gate closes (1401-1423)
\* (mutant) the gate lets the cycle go on
LowBalanceResult_ignored(r) == [r EXCEPT !.pc = "market", !.net = 1]

LowBalanceResult(r) ==
    [r EXCEPT !.pc = "record", !.ok = FALSE, !.act = "wait",
              !.err = "Low balance"]

\* getBalance() answered at the start of the cycle: b is the on-chain
\* balance, or -1 when every RPC attempt failed and the cached value is
\* returned (1773-1776); then the minimum-balance gate
getBalanceReturns(r, b) ==
    /\ At(r, "getBalance")
    /\ LET balanceBefore == IF b = -1 THEN balance ELSE b IN
       /\ balance' = balanceBefore
       /\ IF balanceBefore < MinBalance
          THEN SetLoop(r, LowBalanceResult([r EXCEPT !.before = balanceBefore]))
          ELSE SetLoop(r, [r EXCEPT !.pc = "market", !.net = 1,
                                    !.before = balanceBefore])
    /\ UNCHANGED <<Calls, stopped, lastExecution, Tracked>>
    /\ UNCHANGED <<isRunning, isPaused, status, executionMode, config,
                   positions, launchedTokens>>

\* isActionAllowed(action) for the actions that config.actionPriorities
\* lists with enabled: false (config.disabledActions), the actions it
\* leaves enabled having neither cooldownMs nor maxPerHour (1305-1315, 1349)
isActionAllowed(action) == action \notin config.disabledActions

\* The actions reported to buildPrompt as not allowed (1441-1449);
\* buildPrompt does not read its parameter _actionCooldowns
actionCooldowns ==
    {action \in {"launch", "buy", "sell", "discover", "analyze"} :
        ~isActionAllowed(action)}

\* executionHistory.slice(-5) (ai-provider.ts 300-301)
recentActions(executionHistory) ==
    SubSeq(executionHistory,
           IF Len(executionHistory) > 5 THEN Len(executionHistory) - 4 ELSE 1,
           Len(executionHistory))

\* The "RECENT ACTIONS" section of buildPrompt(config, marketData,
\* currentBalance, launchedTokens, _actionCooldowns, executionHistory = [])
buildPrompt(executionHistory) == recentActions(executionHistory)

\* getMarketData() answered (a failure is replaced by an empty list); the
\* prompt is built and the model is called.  The runner's call of
\* buildPrompt (1452-1458) passes five arguments: executionHistory takes its
\* default, []
getMarketDataReturns(r) ==
    /\ At(r, "market")
    /\ SetLoop(r, [r EXCEPT !.pc = "model", !.net = r.net + 1,
                            !.shown = buildPrompt(<<>>)])
    /\ UNCHANGED Shared

\* The model call answered and parseDecision produced d; the onDecision
\* hook ran; executeDecision(d) ran up to its first await
callModelReturns(r, d) ==
    /\ At(r, "model")
    /\ LET x == executeDecision(d) IN
       IF x.kind = "local"
       THEN SetLoop(r, [r EXCEPT !.pc = "balanceAfter", !.ok = x.ok,
                            !.act = d.action, !.err = x.err,
                            !.inp = IF d.action = "launch" THEN d.ticker
                                    ELSE "none",
                            !.gbal = IF d.action = "buy" THEN balance ELSE 0,
                            !.gnpos = IF d.action = "buy"
                                      THEN Len(positions) ELSE 0])
       ELSE SetLoop(r, [r EXCEPT !.pc = "client", !.op = x.op,
                            !.mode = executionMode, !.tok = x.tok,
                            !.inp = x.inp, !.amt = x.amt,
                            !.gbal = balance, !.gnpos = Len(positions),
                            !.act = d.action, !.net = r.net + 1])
    /\ UNCHANGED Shared

\* (mutant) a buy of a token already held is merged into its position
PositionsAfter_merged(r) ==
    CASE r.op = "buy" ->
            IF \E i \in 1..Len(positions) : positions[i] = r.tok
            THEN positions ELSE Append(positions, r.tok)
      [] r.op = "sell" -> RemoveFirst(positions, r.tok)
      [] OTHER -> positions

\* The code after a successful trading call (1619-1632, 1692-1701,
\* 1718-1727): the portfolio change and the successful outcome
Settled(r) ==
    [r EXCEPT !.pc = "balanceAfter", !.ok = TRUE, !.err = "none",
              !.op = "none", !.mode = "none", !.tok = "none",
              !.inp = "none", !.amt = 0, !.gbal = 0, !.gnpos = 0]

PositionsAfter(r) ==
    CASE r.op = "buy" -> Append(positions, r.tok)
      [] r.op = "sell" -> RemoveFirst(positions, r.tok)
      [] OTHER -> positions

\* The trading platform answered the request of the cycle successfully.
\* In self-execute mode a buy or sell continues with the on-chain
\* transaction; a launch answers with the new token's address t.
clientReturns(r, t) ==
    /\ At(r, "client")
    /\ IF r.op \in {"buy", "sell"} /\ r.mode # "gasless"
      THEN /\ SetLoop(r, [r EXCEPT !.pc = "onchain", !.net = r.net + 1])
           /\ UNCHANGED <<positions, launchedTokens>>
      ELSE /\ SetLoop(r, Settled(r))
           /\ positions' = PositionsAfter(r)
           /\ launchedTokens' =
                IF r.op = "launch" THEN RecordLaunch(launchedTokens, t)
                ELSE launchedTokens
    /\ UNCHANGED <<Calls, stopped, lastExecution, Tracked>>
    /\ UNCHANGED <<isRunning, isPaused, status, executionMode, config, balance>>

\* executeBuyTransaction / executeSellTransaction confirmed
onchainReturns(r) ==
    /\ At(r, "onchain")
    /\ SetLoop(r, Settled(r))
    /\ positions' = PositionsAfter(r)
    /\ UNCHANGED <<Calls, stopped, lastExecution, Tracked>>
    /\ UNCHANGED <<isRunning, isPaused, status, executionMode, config, balance,
                   launchedTokens>>

\* sellAllPositions() (1791-1856) up to its first await: the copy of the
\* position list, and the sell request for its first entry.  With no
\* position the call returns at once.
sellAllPositions ==
    /\ positions # <<>>
    /\ BagCardinality([r \in {x \in Pending :
                                 x.pc \in {"sweepClient", "sweepOnchain"}}
                          |-> loops[r]]) < MaxSweeps
    /\ loops' = loops (+) SetToBag({[AtHead EXCEPT
                    !.pc = "sweepClient", !.op = "sell",
                    !.mode = executionMode, !.tok = Head(positions),
                    !.todo = Tail(positions)]})
    /\ UNCHANGED Shared

\* The sell request of sellAllPositions(), or in self-execute mode its
\* transaction, answered or threw; the first position of the token is
\* removed after a success and the next entry of the copy is sold
sweepSettles(r, outcome) ==
    /\ r.pc \in {"sweepClient", "sweepOnchain"}
    /\ IF outcome = "ok" /\ r.pc = "sweepClient" /\ r.mode # "gasless"
       THEN /\ SetLoop(r, [r EXCEPT !.pc = "sweepOnchain"])
            /\ UNCHANGED positions
       ELSE /\ positions' = IF outcome = "ok"
                            THEN RemoveFirst(positions, r.tok)
                            ELSE positions
            /\ IF r.todo = <<>>
               THEN Return(r)
               ELSE SetLoop(r, [r EXCEPT !.pc = "sweepClient",
                                         !.mode = executionMode,
                                         !.tok = Head(r.todo),
                                         !.todo = Tail(r.todo)])
    /\ UNCHANGED <<Calls, stopped, lastExecution, Tracked>>
    /\ UNCHANGED <<isRunning, isPaused, status, executionMode, config, balance,
                   launchedTokens>>

\* (mutant) executeDecision without its catch: the exception reaches the
\* catch of the loop
clientThrows_uncaught(r) ==
    /\ r.pc \in {"client", "onchain"}
    /\ SetLoop(r, [r EXCEPT !.pc = "catchHooks", !.ok = FALSE,
                            !.act = "wait", !.err = "thrown",
                            !.delivered = r.delivered + 1])
    /\ UNCHANGED Shared

\* The trading client or the on-chain execution threw: executeDecision's
\* catch turns it into a failed outcome (1743-1745)
clientThrows(r) ==
    /\ r.pc \in {"client", "onchain"}
    /\ SetLoop(r, [Settled(r) EXCEPT !.ok = FALSE, !.err = "client error"])
    /\ UNCHANGED Shared

\* getBalance() answered at the end of the cycle (1491); executeOneCycle
\* returns its result
balanceAfterReturns(r, b) ==
    /\ At(r, "balanceAfter")
    /\ balance' = IF b = -1 THEN balance ELSE b
    /\ SetLoop(r, [r EXCEPT !.pc = "record", !.after = balance'])
    /\ UNCHANGED <<Calls, stopped, lastExecution, Tracked>>
    /\ UNCHANGED <<isRunning, isPaused, status, executionMode, config,
                   positions, launchedTokens>>

\* The loop records the result and calls the execution hooks (1086-1113)
\* hooks.onExecution and config.onExecution are both supplied and share
\* one try block (1106-1113, 1153-1160): hooks.onExecution is called, and
\* config.onExecution after it unless it threw
CallOnExecution(r) ==
    [r EXCEPT !.delivered = r.delivered + 1,
              !.cb = IF config.hooksThrow THEN r.cb ELSE r.cb + 1]

\* (mutant) every result with a balance change counts as a trade
updatePerformanceMetrics_anyResult(result) ==
    LET pl == result.after - result.before
        counted(n) == IF n < MaxTrades THEN n + 1 ELSE n
    IN IF result.before # -1 /\ result.after # -1
       THEN [winCount |-> IF pl > 0 THEN counted(winCount) ELSE winCount,
             lossCount |-> IF pl < 0 THEN counted(lossCount) ELSE lossCount]
       ELSE [winCount |-> winCount, lossCount |-> lossCount]

\* updatePerformanceMetrics (1355-1387): state.winCount and state.lossCount
\* after the call
updatePerformanceMetrics(result) ==
    LET pl == result.after - result.before
        counted(n) == IF n < MaxTrades THEN n + 1 ELSE n
    IN IF /\ result.before # -1 /\ result.after # -1
          /\ result.act \in {"buy", "sell"} /\ result.ok
       THEN [winCount |-> IF pl > 0 THEN counted(winCount) ELSE winCount,
             lossCount |-> IF pl < 0 THEN counted(lossCount) ELSE lossCount]
       ELSE [winCount |-> winCount, lossCount |-> lossCount]

recordResult(r) ==
    /\ At(r, "record")
    /\ lastExecution' = IF r.ok THEN "success" ELSE "failure"
    /\ historyLength' = IF historyLength < MaxHistory
                        THEN historyLength + 1 ELSE historyLength
    /\ winCount' = updatePerformanceMetrics(r).winCount
    /\ lossCount' = updatePerformanceMetrics(r).lossCount
    /\ interval' = adjustIntervalBasedOnResult(interval, r)
    /\ SetLoop(r, [CallOnExecution(r) EXCEPT !.pc = "execHook",
                                             !.recorded = r.recorded + 1,
                                             !.before = -1, !.after = -1])
    /\ UNCHANGED <<Calls, stopped>>
    /\ UNCHANGED <<isRunning, isPaused, status, executionMode, config, balance,
                   positions, launchedTokens>>

\* The execution hooks are done (this.dashboard is undefined); the loop
\* sleeps for the next interval (1115-1128)
executionHooksDone(r) ==
    /\ At(r, "execHook")
    /\ interval' = getCurrentInterval(interval)
    /\ SetLoop(r, [r EXCEPT !.pc = "sleep"])
    /\ UNCHANGED <<Calls, stopped, lastExecution, historyLength, winCount,
                   lossCount>>
    /\ UNCHANGED <<isRunning, isPaused, status, executionMode, config, balance,
                   positions, launchedTokens>>

\* (mutant) the catch block does not hand its result to the execution hooks
CaughtResult_unreported(r) ==
    [r EXCEPT !.pc = "catchHooks", !.ok = FALSE, !.act = "wait",
              !.err = "thrown"]

\* The catch block of the loop up to its first await (1130-1156): the
\* synthetic failed result is handed to the execution hooks
CaughtResult(r) ==
    [CallOnExecution(r) EXCEPT !.pc = "catchHooks", !.ok = FALSE,
                               !.act = "wait", !.err = "thrown"]

\* (mutant) no try/catch around the cycle: the exception ends the loop
callModelThrows_uncaught(r) ==
    /\ At(r, "model")
    /\ Return(r)
    /\ UNCHANGED Shared

\* The model call threw (network failure, API error, payment failure)
callModelThrows(r) ==
    /\ At(r, "model")
    /\ status' = "error"
    /\ SetLoop(r, CaughtResult(r))
    /\ UNCHANGED <<Calls, stopped, lastExecution, Tracked>>
    /\ UNCHANGED <<isRunning, isPaused, executionMode, config, balance,
                   positions, launchedTokens>>

\* The execution hooks of the catch block are done; the error hooks are
\* called and the loop sleeps the cooldown (1162-1173)
catchHooksDone(r) ==
    /\ At(r, "catchHooks")
    /\ SetLoop(r, [r EXCEPT !.pc = "cooldown", !.errors = r.errors + 1])
    /\ UNCHANGED Shared

\* sleep(10000) is over: status is set back to 'running' (1174)
cooldownOver(r) ==
    /\ At(r, "cooldown")
    /\ status' = "running"
    /\ SetLoop(r, AtHead)
    /\ UNCHANGED <<Calls, stopped, lastExecution, Tracked>>
    /\ UNCHANGED <<isRunning, isPaused, executionMode, config, balance,
                   positions, launchedTokens>>

----------------------------------------------------------------------------
(* X402LaunchClient.requestWithPayment (client.ts 146-238) and the axios   *)
(* response interceptor (client.ts 92-140).  The call keeps its request    *)
(* config, and with it the X-PAYMENT header, across the iterations of its  *)
(* retry loop.                                                             *)
(*   pc      : "idle", "request" (awaiting the reply), "signing" (awaiting *)
(*             createX402PaymentHeader), "backoff", "returned", "thrown"   *)
(*   attempt : the loop counter                                            *)
(*   header  : config.headers["X-PAYMENT"]: 0 when absent, else the number *)
(*             of the authorization it holds                               *)
(*   sent    : the X-PAYMENT header of every HTTP request sent so far      *)
(*   answers : the reply to each of them                                   *)
(*   signed  : the authorizations created so far                           *)
(*   result  : "data", or the code of the error thrown                     *)
(*   delay   : the milliseconds of the last rate-limit backoff             *)

\* retries = 3 (client.ts 150)
PaymentRetries == 3

\* The platform's reply to one request: a status, "402+accepts" a 402 whose
\* body lists payment requirements, "429+7" and "429+0" a 429 with the
\* header retry-after: 7 or retry-after: 0, "none" no response at all
PlatformReplies ==
    {"200", "402+accepts", "402", "429", "429+7", "429+0", "none", "500"}

\* extractPaymentRequirements (rpc-provider.ts 363-370) is non-null
extractPaymentRequirements(reply) == reply = "402+accepts"

\* The error the response interceptor throws for a failed request
Intercept(reply) ==
    CASE reply \in {"402+accepts", "402"} ->
             [name |-> "PaymentRequiredError", code |-> "PAYMENT_REQUIRED",
              paymentDetails |-> extractPaymentRequirements(reply)]
      [] reply \in {"429", "429+7", "429+0"} ->
             \* retryAfter ? parseInt(retryAfter) : undefined; 0 and
             \* undefined are both falsy where the field is read
             [name |-> "RateLimitError", code |-> "RATE_LIMIT",
              paymentDetails |-> FALSE,
              retryAfter |-> IF reply = "429+7" THEN 7 ELSE 0]
      [] reply = "none" ->
             [name |-> "NetworkError", code |-> "NETWORK_ERROR",
              paymentDetails |-> FALSE]
      [] OTHER ->
             [name |-> "X402LaunchError", code |-> reply,
              paymentDetails |-> FALSE]

PayIdle ==
    [pc |-> "idle", attempt |-> 0, header |-> 0, sent |-> <<>>,
     answers |-> <<>>, signed |-> 0, result |-> "none", delay |-> 0]

PayThrow(p, code) == [p EXCEPT !.pc = "thrown", !.result = code]

\* (mutant) a rate-limited request is retried whatever the attempt
HandleReply_unbounded(p, reply) ==
    LET error == Intercept(reply)
    IN IF reply = "200"
       THEN [p EXCEPT !.pc = "returned", !.result = "data"]
       ELSE IF error.name = "PaymentRequiredError" /\ error.paymentDetails
       THEN IF p.attempt = 0 /\ p.header = 0
            THEN [p EXCEPT !.pc = "signing"]
            ELSE PayThrow(p, IF p.header # 0 THEN "PAYMENT_VERIFICATION_FAILED"
                                              ELSE error.code)
       ELSE IF error.name = "RateLimitError"
       THEN [p EXCEPT !.pc = "backoff",
                      !.delay = IF error.retryAfter # 0
                                THEN error.retryAfter * 1000
                                ELSE 2 ^ p.attempt * 1000]
       ELSE PayThrow(p, error.code)

\* The body of the retry loop after the awaited request settled (160-234)
HandleReply(p, reply) ==
    LET error == Intercept(reply)
        isPaymentError == error.name = "PaymentRequiredError"
    IN IF reply = "200"
       THEN [p EXCEPT !.pc = "returned", !.result = "data"]
       ELSE IF isPaymentError /\ error.paymentDetails
       THEN IF p.attempt = 0 /\ p.header = 0
            THEN [p EXCEPT !.pc = "signing"]
            ELSE IF p.header # 0
                 THEN PayThrow(p, "PAYMENT_VERIFICATION_FAILED")
                 ELSE PayThrow(p, error.code)
       ELSE IF error.name = "RateLimitError" /\ p.attempt < PaymentRetries
       THEN [p EXCEPT !.pc = "backoff",
                      !.delay = IF error.retryAfter # 0
                                THEN error.retryAfter * 1000
                                ELSE 2 ^ p.attempt * 1000]
       ELSE PayThrow(p, error.code)

\* `continue`: the next iteration sends the request with the config as it is
NextAttempt(p) ==
    [p EXCEPT !.pc = "request", !.attempt = p.attempt + 1,
              !.sent = Append(p.sent, p.header)]

\* A call of requestWithPayment up to its first await: the first request
\* goes out without an X-PAYMENT header
requestWithPayment ==
    /\ pay.pc \in {"idle", "returned", "thrown"}
    /\ pay' = [PayIdle EXCEPT !.pc = "request", !.sent = <<0>>]
    /\ UNCHANGED <<Runner, loops, mdl, parse, rpc, auth, buy, router>>

\* this.api.request(config) settles
apiRequestSettles(reply) ==
    /\ pay.pc = "request"
    /\ pay' = HandleReply([pay EXCEPT !.answers = Append(pay.answers, reply)],
                          reply)
    /\ UNCHANGED <<Runner, loops, mdl, parse, rpc, auth, buy, router>>

\* createX402PaymentHeader resolves (181-200): the header is put into the
\* config and the loop continues
paymentHeaderCreated ==
    /\ pay.pc = "signing"
    /\ pay' = NextAttempt([pay EXCEPT !.header = pay.signed + 1,
                                      !.signed = pay.signed + 1])
    /\ UNCHANGED <<Runner, loops, mdl, parse, rpc, auth, buy, router>>

\* createX402PaymentHeader rejects: the error leaves the call
paymentHeaderFails ==
    /\ pay.pc = "signing"
    /\ pay' = PayThrow(pay, "SIGNING_FAILED")
    /\ UNCHANGED <<Runner, loops, mdl, parse, rpc, auth, buy, router>>

\* The rate-limit delay is over (222-230)
backoffOver ==
    /\ pay.pc = "backoff"
    /\ pay' = NextAttempt(pay)
    /\ UNCHANGED <<Runner, loops, mdl, parse, rpc, auth, buy, router>>

----------------------------------------------------------------------------
(* X402AIProvider.callModel (ai-provider.ts 38-151) and fetchWithRetry     *)
(* (156-182).  The fields are those of the payment call above; retries is  *)
(* the parameter of the running fetchWithRetry.                            *)

\* retries = 3 (ai-provider.ts 159)
FetchRetries == 3

\* How fetch() settles: a response status, or it rejects with a retryable
\* ("network") or another ("abort") error
FetchOutcomes == {"200", "402+accepts", "402", "500", "network", "abort"}

ModelIdle ==
    [pc |-> "idle", retries |-> 0, header |-> 0, sent |-> <<>>,
     answers |-> <<>>, signed |-> 0, result |-> "none"]

ModelThrow(m, why) == [m EXCEPT !.pc = "thrown", !.result = why]

\* fetchWithRetry's catch (164-181), then callModel from the response on
\* (70-150)
HandleFetch(m, outcome) ==
    IF outcome = "network"
    THEN IF m.retries > 0
         THEN [m EXCEPT !.pc = "backoff"]
         ELSE ModelThrow(m, "fetch failed")
    ELSE IF outcome = "abort"
    THEN ModelThrow(m, "aborted")
    ELSE IF m.header = 0 /\ outcome \in {"402+accepts", "402"}
    THEN IF outcome = "402"
         THEN ModelThrow(m, "Payment required but no payment details provided")
         ELSE [m EXCEPT !.pc = "signing"]
    ELSE IF outcome # "200"
    THEN ModelThrow(m, "AI Model API error")
    ELSE [m EXCEPT !.pc = "returned", !.result = "text"]

\* A call of callModel up to the await of the first fetch
callModel ==
    /\ mdl.pc \in {"idle", "returned", "thrown"}
    /\ mdl' = [ModelIdle EXCEPT !.pc = "fetch", !.retries = FetchRetries,
                                !.sent = <<0>>]
    /\ UNCHANGED <<Runner, loops, pay, parse, rpc, auth, buy, router>>

\* fetch(url, options) settles
fetchSettles(outcome) ==
    /\ mdl.pc = "fetch"
    /\ mdl' = HandleFetch([mdl EXCEPT !.answers = Append(mdl.answers, outcome)],
                          outcome)
    /\ UNCHANGED <<Runner, loops, pay, parse, rpc, auth, buy, router>>

\* The backoff is over: fetchWithRetry(url, options, retries - 1, ...)
fetchRetried ==
    /\ mdl.pc = "backoff"
    /\ mdl' = [mdl EXCEPT !.pc = "fetch", !.retries = mdl.retries - 1,
                          !.sent = Append(mdl.sent, mdl.header)]
    /\ UNCHANGED <<Runner, loops, pay, parse, rpc, auth, buy, router>>

\* createX402PaymentHeader resolves (80-96): a new fetchWithRetry sends the
\* request with the X-PAYMENT header
modelHeaderCreated ==
    /\ mdl.pc = "signing"
    /\ mdl' = [mdl EXCEPT !.pc = "fetch", !.retries = FetchRetries,
                          !.header = mdl.signed + 1,
                          !.signed = mdl.signed + 1,
                          !.sent = Append(mdl.sent, mdl.signed + 1)]
    /\ UNCHANGED <<Runner, loops, pay, parse, rpc, auth, buy, router>>

\* createX402PaymentHeader rejects
modelHeaderFails ==
    /\ mdl.pc = "signing"
    /\ mdl' = ModelThrow(mdl, "SIGNING_FAILED")
    /\ UNCHANGED <<Runner, loops, pay, parse, rpc, auth, buy, router>>

----------------------------------------------------------------------------
(* X402AIProvider.parseDecision (ai-provider.ts 376-453).  The reply text  *)
(* is a sequence of lexemes: the JSON punctuation, three string literals   *)
(* and "text" for any run of characters that holds no brace, quote, colon  *)
(* or comma.                                                               *)
(*   parse.response : the text handed to parseDecision                     *)
(*   parse.decision : what the call produced, once it is over              *)

\* The longest reply, in lexemes
MaxReplyLen == 6

Lexemes == {"{", "}", ",", ":", "\"action\"", "\"buy\"", "\"hold\"", "text"}

IsStringLiteral(t) == t \in {"\"action\"", "\"buy\"", "\"hold\""}

\* The characters between the quotes
StringValue(t) ==
    CASE t = "\"action\"" -> "action"
      [] t = "\"buy\"" -> "buy"
      [] t = "\"hold\"" -> "hold"
      [] OTHER -> ""

\* The texts of at most n lexemes
TextsUpTo(n) == UNION {[1..k -> Lexemes] : k \in 0..n}

\* The list both branches of parseDecision test against (405, 421-429)
validActions == {"buy", "sell", "launch", "discover", "analyze", "wait", "stop"}

\* response.match(/\{[\s\S]*\}/): from the first "{" to the last "}"
jsonMatch(response) ==
    LET opens == {i \in 1..Len(response) : response[i] = "{"}
        closes == {i \in 1..Len(response) : response[i] = "}"}
    IN IF opens = {} \/ closes = {}
       THEN <<>>
       ELSE LET first == CHOOSE i \in opens : \A j \in opens : i <= j
                last == CHOOSE i \in closes : \A j \in closes : j <= i
            IN IF first < last THEN SubSeq(response, first, last) ELSE <<>>

RECURSIVE StripFrom(_, _)
\* jsonStr.replace(/,(\s*[}\]])/g, "$1") from lexeme k on
StripFrom(s, k) ==
    IF k > Len(s) THEN <<>>
    ELSE IF s[k] = "," /\ k < Len(s) /\ s[k + 1] = "}"
         THEN StripFrom(s, k + 1)
         ELSE <<s[k]>> \o StripFrom(s, k + 1)

SyntaxError == [ok |-> FALSE, next |-> 0, kind |-> "none", text |-> "",
                action |-> "undefined"]

RECURSIVE ParseValue(_, _), ParseMembers(_, _, _)
\* JSON.parse of the value that starts at lexeme i: next is the lexeme after
\* it, action the value's own "action" member
ParseValue(s, i) ==
    IF i > Len(s) THEN SyntaxError
    ELSE IF IsStringLiteral(s[i])
    THEN [ok |-> TRUE, next |-> i + 1, kind |-> "string",
          text |-> StringValue(s[i]), action |-> "undefined"]
    ELSE IF s[i] = "{"
    THEN IF i < Len(s) /\ s[i + 1] = "}"
         THEN [ok |-> TRUE, next |-> i + 2, kind |-> "object", text |-> "",
               action |-> "undefined"]
         ELSE ParseMembers(s, i + 1, "undefined")
    ELSE SyntaxError

\* The members of an object from the key at lexeme i on; a later member
\* replaces an earlier one of the same name
ParseMembers(s, i, action) ==
    IF i + 1 > Len(s) \/ ~IsStringLiteral(s[i]) \/ s[i + 1] # ":"
    THEN SyntaxError
    ELSE LET v == ParseValue(s, i + 2)
             a == IF StringValue(s[i]) = "action"
                  THEN IF v.kind = "string" THEN v.text ELSE "[object]"
                  ELSE action
         IN IF ~v.ok \/ v.next > Len(s) THEN SyntaxError
            ELSE IF s[v.next] = "}"
            THEN [ok |-> TRUE, next |-> v.next + 1, kind |-> "object",
                  text |-> "", action |-> a]
            ELSE IF s[v.next] = ","
            THEN ParseMembers(s, v.next + 1, a)
            ELSE SyntaxError

\* JSON.parse(jsonStr): the whole string is one value
JSONparse(s) ==
    LET v == ParseValue(s, 1)
    IN IF v.ok /\ v.next = Len(s) + 1 THEN v ELSE SyntaxError

\* jsonStr.match(/"action"\s*:\s*"([^"]+)"/): the first capture, "null"
\* without a match
actionMatch(s) ==
    LET hits == {i \in 1..(Len(s) - 2) :
                    /\ s[i] = "\"action\""
                    /\ s[i + 1] = ":"
                    /\ IsStringLiteral(s[i + 2])}
    IN IF hits = {} THEN "null"
       ELSE StringValue(s[(CHOOSE i \in hits : \A j \in hits : i <= j) + 2])

Returned(a, why) == [threw |-> FALSE, action |-> a, reasoning |-> why]

Threw == [threw |-> TRUE, action |-> "none", reasoning |-> "none"]

\* The outer try block (378-444)
TryParse(response) ==
    IF jsonMatch(response) = <<>>
    THEN Returned("wait", "No JSON found in AI response")
    ELSE LET jsonStr == StripFrom(jsonMatch(response), 1)
             parsed == JSONparse(jsonStr)
         IN IF ~parsed.ok
            THEN IF actionMatch(jsonStr) \in validActions
                 THEN Returned(actionMatch(jsonStr),
                               "JSON parse error - using extracted action")
                 ELSE Threw
            ELSE IF parsed.action \notin validActions
            THEN Returned("wait", "Invalid action")
            ELSE Returned(parsed.action, "parsed")

\* (mutant) without the outer catch
parseDecision_uncaught(response) == TryParse(response)

\* parseDecision: the outer catch (445-452) turns any exception into wait
parseDecision(response) ==
    IF TryParse(response).threw
    THEN Returned("wait", "Parse error")
    ELSE TryParse(response)

ParseIdle == [response |-> <<>>, done |-> FALSE, decision |-> Threw]

\* decide() hands the model's text to parseDecision
parseDecisionReturns ==
    /\ ~parse.done
    /\ parse' = [parse EXCEPT !.done = TRUE,
                              !.decision = parseDecision(parse.response)]
    /\ UNCHANGED <<Runner, loops, pay, mdl, rpc, auth, buy, router>>

----------------------------------------------------------------------------
(* createX402PaymentHeader (rpc-provider.ts 253-358): the payload, its     *)
(* JSON text and the base64 form of that text.  A string is the sequence   *)
(* of its character codes; the strings of a payload are ASCII, so the      *)
(* bytes of the UTF-8 buffer are the character codes.                      *)
(*   auth.pc      : "idle", "encoded" (the header was returned), "decoded" *)
(*   auth.payload : the payload object (345-353)                           *)
(*   auth.header  : the string returned (357)                              *)
(*   auth.decoded : what the receiver of the header reads from it          *)

RECURSIVE Flatten(_)
\* the strings of a sequence, joined
Flatten(ss) == IF ss = <<>> THEN <<>> ELSE Head(ss) \o Flatten(Tail(ss))

\* the lower-case hexadecimal digit of n
HexDigit(n) == IF n < 10 THEN 48 + n ELSE 97 + (n - 10)

\* (mutant) a string written between quotes as it is
EscapeChar_raw(c) == <<c>>

\* JSON.stringify of one character of a string: \" \\ \b \t \n \f \r,
\* \u00XX for the other control characters
EscapeChar(c) ==
    CASE c = 34 -> <<92, 34>>
      [] c = 92 -> <<92, 92>>
      [] c = 8 -> <<92, 98>>
      [] c = 9 -> <<92, 116>>
      [] c = 10 -> <<92, 110>>
      [] c = 12 -> <<92, 102>>
      [] c = 13 -> <<92, 114>>
      [] c < 32 /\ c \notin {8, 9, 10, 12, 13} ->
            <<92, 117, 48, 48, HexDigit(c \div 16), HexDigit(c % 16)>>
      [] OTHER -> <<c>>

\* JSON.stringify of a string
StringifyString(cs) ==
    <<34>> \o Flatten([i \in 1..Len(cs) |-> EscapeChar(cs[i])]) \o <<34>>

RECURSIVE StringifyNumber(_)
\* JSON.stringify of a non-negative integer
StringifyNumber(n) ==
    IF n < 10 THEN <<48 + n>>
    ELSE StringifyNumber(n \div 10) \o <<48 + (n % 10)>>

\* the property names of the payload, in the order of the object literal
PayloadKeys ==
    [payer |-> <<112, 97, 121, 101, 114>>,
     amount |-> <<97, 109, 111, 117, 110, 116>>,
     asset |-> <<97, 115, 115, 101, 116>>,
     recipient |-> <<114, 101, 99, 105, 112, 105, 101, 110, 116>>,
     nonce |-> <<110, 111, 110, 99, 101>>,
     signature |-> <<115, 105, 103, 110, 97, 116, 117, 114, 101>>,
     timestamp |-> <<116, 105, 109, 101, 115, 116, 97, 109, 112>>]

Member(key, value) == StringifyString(key) \o <<58>> \o value

\* JSON.stringify(payload)
JSONstringify(p) ==
    <<123>>
    \o Member(PayloadKeys.payer, StringifyString(p.payer)) \o <<44>>
    \o Member(PayloadKeys.amount, StringifyString(p.amount)) \o <<44>>
    \o Member(PayloadKeys.asset, StringifyString(p.asset)) \o <<44>>
    \o Member(PayloadKeys.recipient, StringifyString(p.recipient)) \o <<44>>
    \o Member(PayloadKeys.nonce, StringifyString(p.nonce)) \o <<44>>
    \o Member(PayloadKeys.signature, StringifyString(p.signature)) \o <<44>>
    \o Member(PayloadKeys.timestamp, StringifyNumber(p.timestamp))
    \o <<125>>

\* the base64 alphabet: A-Z, a-z, 0-9, + and /
Base64Char(n) ==
    IF n < 26 THEN 65 + n
    ELSE IF n < 52 THEN 97 + (n - 26)
    ELSE IF n < 62 THEN 48 + (n - 52)
    ELSE IF n = 62 THEN 43 ELSE 47

RECURSIVE toBase64(_)
\* Buffer.toString('base64'): three bytes to four characters, "=" padding
toBase64(bytes) ==
    IF bytes = <<>> THEN <<>>
    ELSE IF Len(bytes) = 1
    THEN <<Base64Char(bytes[1] \div 4), Base64Char((bytes[1] % 4) * 16),
           61, 61>>
    ELSE IF Len(bytes) = 2
    THEN <<Base64Char(bytes[1] \div 4),
           Base64Char((bytes[1] % 4) * 16 + bytes[2] \div 16),
           Base64Char((bytes[2] % 16) * 4), 61>>
    ELSE <<Base64Char(bytes[1] \div 4),
           Base64Char((bytes[1] % 4) * 16 + bytes[2] \div 16),
           Base64Char((bytes[2] % 16) * 4 + bytes[3] \div 64),
           Base64Char(bytes[3] % 64)>>
         \o toBase64(SubSeq(bytes, 4, Len(bytes)))

(* The receiver of the header: base64 to bytes, bytes to text, JSON.parse  *)
(* of the text, as the header format (base64 of a JSON object) prescribes. *)

\* the value of a base64 character, 64 for any other character
Base64Value(c) ==
    IF c >= 65 /\ c <= 90 THEN c - 65
    ELSE IF c >= 97 /\ c <= 122 THEN c - 97 + 26
    ELSE IF c >= 48 /\ c <= 57 THEN c - 48 + 52
    ELSE IF c = 43 THEN 62
    ELSE IF c = 47 THEN 63 ELSE 64

RECURSIVE fromBase64(_)
\* four characters to three bytes; "=" ends the text
fromBase64(cs) ==
    IF Len(cs) < 4 THEN <<>>
    ELSE LET a == Base64Value(cs[1])
             b == Base64Value(cs[2])
             c == Base64Value(cs[3])
             d == Base64Value(cs[4])
         IN IF cs[3] = 61
            THEN <<a * 4 + b \div 16>>
            ELSE IF cs[4] = 61
            THEN <<a * 4 + b \div 16, (b % 16) * 16 + c \div 4>>
            ELSE <<a * 4 + b \div 16, (b % 16) * 16 + c \div 4,
                   (c % 4) * 64 + d>>
                 \o fromBase64(SubSeq(cs, 5, Len(cs)))

\* the value of a hexadecimal digit, 16 for any other character
HexValue(c) ==
    IF c >= 48 /\ c <= 57 THEN c - 48
    ELSE IF c >= 97 /\ c <= 102 THEN c - 97 + 10
    ELSE IF c >= 65 /\ c <= 70 THEN c - 65 + 10 ELSE 16

ReadFails == [ok |-> FALSE, next |-> 0, text |-> <<>>, number |-> 0]

RECURSIVE ReadString(_, _, _)
\* the characters of a JSON string from position i, after its opening quote
ReadString(s, i, acc) ==
    IF i > Len(s) \/ s[i] < 32 THEN ReadFails
    ELSE IF s[i] = 34
    THEN [ok |-> TRUE, next |-> i + 1, text |-> acc, number |-> 0]
    ELSE IF s[i] # 92 THEN ReadString(s, i + 1, Append(acc, s[i]))
    ELSE IF i + 1 > Len(s) THEN ReadFails
    ELSE IF s[i + 1] \in {34, 92, 47}
    THEN ReadString(s, i + 2, Append(acc, s[i + 1]))
    ELSE IF s[i + 1] \in {98, 102, 110, 114, 116}
    THEN ReadString(s, i + 2, Append(acc,
            CASE s[i + 1] = 98 -> 8 [] s[i + 1] = 102 -> 12
              [] s[i + 1] = 110 -> 10 [] s[i + 1] = 114 -> 13
              [] OTHER -> 9))
    ELSE IF s[i + 1] = 117 /\ i + 5 <= Len(s)
            /\ \A k \in 2..5 : HexValue(s[i + k]) < 16
    THEN ReadString(s, i + 6, Append(acc,
            ((HexValue(s[i + 2]) * 16 + HexValue(s[i + 3])) * 16
                + HexValue(s[i + 4])) * 16 + HexValue(s[i + 5])))
    ELSE ReadFails

RECURSIVE ReadDigits(_, _, _)
\* the digits of a JSON number from position i on
ReadDigits(s, i, acc) ==
    IF i <= Len(s) /\ s[i] >= 48 /\ s[i] <= 57
    THEN ReadDigits(s, i + 1, acc * 10 + (s[i] - 48))
    ELSE [ok |-> TRUE, next |-> i, text |-> <<>>, number |-> acc]

\* a JSON value at position i: a string, or a number without sign,
\* fraction, exponent or leading zero
ReadValue(s, i) ==
    IF i > Len(s) THEN ReadFails
    ELSE IF s[i] = 34 THEN ReadString(s, i + 1, <<>>)
    ELSE IF s[i] = 48 THEN [ok |-> TRUE, next |-> i + 1, text |-> <<>>,
                            number |-> 0]
    ELSE IF s[i] >= 49 /\ s[i] <= 57 THEN ReadDigits(s, i, 0)
    ELSE ReadFails

NoPayload ==
    [payer |-> <<>>, amount |-> <<>>, asset |-> <<>>, recipient |-> <<>>,
     nonce |-> <<>>, signature |-> <<>>, timestamp |-> 0, ok |-> FALSE]

\* the payload with the member key: value set
WithMember(p, key, v) ==
    CASE key = PayloadKeys.payer -> [p EXCEPT !.payer = v.text]
      [] key = PayloadKeys.amount -> [p EXCEPT !.amount = v.text]
      [] key = PayloadKeys.asset -> [p EXCEPT !.asset = v.text]
      [] key = PayloadKeys.recipient -> [p EXCEPT !.recipient = v.text]
      [] key = PayloadKeys.nonce -> [p EXCEPT !.nonce = v.text]
      [] key = PayloadKeys.signature -> [p EXCEPT !.signature = v.text]
      [] key = PayloadKeys.timestamp -> [p EXCEPT !.timestamp = v.number]
      [] OTHER -> p

RECURSIVE ReadMembers(_, _, _)
\* the members of a JSON object from the key at position i on
ReadMembers(s, i, p) ==
    IF i > Len(s) \/ s[i] # 34 THEN NoPayload
    ELSE LET key == ReadString(s, i + 1, <<>>) IN
         IF ~key.ok \/ key.next > Len(s) \/ s[key.next] # 58 THEN NoPayload
         ELSE LET v == ReadValue(s, key.next + 1) IN
              IF ~v.ok \/ v.next > Len(s) THEN NoPayload
              ELSE IF s[v.next] = 44
              THEN ReadMembers(s, v.next + 1, WithMember(p, key.text, v))
              ELSE IF s[v.next] = 125 /\ v.next = Len(s)
              THEN [WithMember(p, key.text, v) EXCEPT !.ok = TRUE]
              ELSE NoPayload

\* JSON.parse(Buffer.from(header, 'base64').toString())
DecodeHeader(header) ==
    LET text == fromBase64(header) IN
    IF Len(text) < 2 \/ text[1] # 123 THEN NoPayload
    ELSE ReadMembers(text, 2, NoPayload)

AuthIdle ==
    [pc |-> "idle", payload |-> NoPayload, header |-> <<>>,
     decoded |-> NoPayload]

\* createX402PaymentHeader returns: payer is wallet.address, amount, asset
\* and recipient come from the payment requirements, nonce and timestamp
\* are drawn inside, signature is what wallet.signTypedData answered; the
\* header is Buffer.from(JSON.stringify(payload)).toString('base64')
createX402PaymentHeader(payload) ==
    /\ auth.pc = "idle"
    /\ auth' = [auth EXCEPT !.pc = "encoded", !.payload = payload,
                            !.header = toBase64(JSONstringify(payload))]
    /\ UNCHANGED <<Runner, loops, pay, mdl, parse, rpc, buy, router>>

\* the receiver decodes the header
headerDecoded ==
    /\ auth.pc = "encoded"
    /\ auth' = [auth EXCEPT !.pc = "decoded",
                            !.decoded = DecodeHeader(auth.header)]
    /\ UNCHANGED <<Runner, loops, pay, mdl, parse, rpc, buy, router>>

----------------------------------------------------------------------------
(* RobustProvider (rpc-provider.ts 55-162): call() and switchToNext().     *)
(* Endpoints are numbered from 0 as in this.providers.                     *)
(*   pc            : "idle", "attempt" (awaiting fn(provider)), "backoff", *)
(*                   "returned", "thrown"                                  *)
(*   currentIndex  : this.currentIndex; it outlives the call               *)
(*   provider      : the endpoint the running call took from getProvider() *)
(*   attempt, totalAttempts : the counters of call()                       *)
(*   log           : endpoint and outcome of each attempt of this call     *)
(*   result        : the endpoint whose answer was returned, or the error  *)

\* this.providers.length
NumEndpoints == 3

\* DEFAULT_RETRY_CONFIG.maxRetries (rpc-provider.ts 30)
MaxRetries == 3

\* How fn(provider) settles: a value, an error whose message names a rate
\* limit ("429") or a network failure ("ETIMEDOUT"), any other error.  An
\* ethers error message quotes the failed call (transaction={ "data": ...,
\* "to": ... }): "revert" is a contract revert whose message holds none of
\* the words looked for, "revert+429" one that quotes an address or call
\* data with the digits 429 in it.
RpcOutcomes == {"ok", "429", "ETIMEDOUT", "revert", "revert+429"}

\* isRateLimited || isNetworkError (128-137): errorMessage.includes('429'),
\* includes('rate'), ..., includes('ETIMEDOUT'), ...
IsRetryable(outcome) == outcome \in {"429", "ETIMEDOUT", "revert+429"}

RpcIdle ==
    [pc |-> "idle", currentIndex |-> 0, provider |-> 0, attempt |-> 0,
     totalAttempts |-> 0, log |-> <<>>, result |-> "none"]

\* switchToNext (92-101): whether the pointer moved, and where it is
switchToNext(index) ==
    LET nextIndex == (index + 1) % NumEndpoints
    IN IF nextIndex = 0 /\ index # 0
       THEN [moved |-> FALSE, index |-> index]
       ELSE [moved |-> TRUE, index |-> nextIndex]

\* (mutant) one attempt more on each endpoint
RetriesLeft_extra(attempt) == attempt + 1 <= MaxRetries

\* The for loop's condition after attempt++ (117)
RetriesLeft(attempt) == attempt + 1 < MaxRetries

\* The next pass through the for loop's body up to the await of fn(provider)
Attempt(c) ==
    [c EXCEPT !.pc = "attempt", !.totalAttempts = c.totalAttempts + 1]

\* A call of call() up to the first await: the while condition holds, the
\* provider is taken from the pointer
rpcCall ==
    /\ rpc.pc \in {"idle", "returned", "thrown"}
    /\ rpc' = Attempt([RpcIdle EXCEPT !.currentIndex = rpc.currentIndex,
                                      !.provider = rpc.currentIndex])
    /\ UNCHANGED <<Runner, loops, pay, mdl, parse, auth, buy, router>>

\* fn(provider) settles (120-148)
rpcAttemptSettles(outcome) ==
    /\ rpc.pc = "attempt"
    /\ LET c == [rpc EXCEPT !.log = Append(rpc.log,
                     [endpoint |-> rpc.provider, outcome |-> outcome])]
       IN rpc' = IF outcome = "ok"
                 THEN [c EXCEPT !.pc = "returned", !.result = c.provider]
                 ELSE IF IsRetryable(outcome)
                 THEN [c EXCEPT !.pc = "backoff"]
                 ELSE [c EXCEPT !.pc = "thrown", !.result = outcome]
    /\ UNCHANGED <<Runner, loops, pay, mdl, parse, auth, buy, router>>

\* The backoff sleep is over (142-155): the next attempt on this endpoint,
\* or the switch to the next endpoint, or the end of the call
rpcBackoffOver ==
    /\ rpc.pc = "backoff"
    /\ rpc' = IF RetriesLeft(rpc.attempt)
              THEN Attempt([rpc EXCEPT !.attempt = rpc.attempt + 1])
              ELSE LET sw == switchToNext(rpc.currentIndex)
                       c == [rpc EXCEPT !.currentIndex = sw.index]
                   IN IF ~sw.moved
                         \/ c.totalAttempts >= MaxRetries * NumEndpoints
                      THEN [c EXCEPT !.pc = "thrown", !.result = "exhausted"]
                      ELSE Attempt([c EXCEPT !.provider = sw.index,
                                             !.attempt = 0])
    /\ UNCHANGED <<Runner, loops, pay, mdl, parse, auth, buy, router>>

----------------------------------------------------------------------------
(* X402LaunchClient.executeBuyTransaction (client.ts 830-964): the buy of   *)
(* the self-execute mode, sent by the agent's own wallet.                  *)
(*   buy.pc        : the await the call is suspended at                    *)
(*   buy.amount    : signedData.usdcAmount                                 *)
(*   buy.attempt   : attempt, the allowance checks after the approval      *)
(*   buy.seen      : the allowances the queries returned, in order         *)
(*   buy.approvals : approve transactions sent                             *)
(*   buy.submitted : buyTokensWithUSDC transactions sent                   *)
(*   buy.result    : "hash", or the code of the error thrown               *)

BuyIdle ==
    [pc |-> "idle", amount |-> 0, attempt |-> 0, seen |-> <<>>,
     approvals |-> 0, submitted |-> 0, result |-> "none"]

\* (mutant) one allowance check more before giving up
ChecksLeft_extra(attempt) == attempt <= 3

\* attempt < maxRetries, maxRetries = 3 (894, 898)
ChecksLeft(attempt) == attempt < 3

\* A call up to its first await (833-868): the expiry and the buyer address
\* of the signed data are tested, then the allowance is queried
executeBuyTransaction(signedData) ==
    /\ buy.pc \in {"idle", "returned", "thrown"}
    /\ buy' = IF signedData.expired
              THEN [BuyIdle EXCEPT !.pc = "thrown",
                                   !.result = "SIGNATURE_EXPIRED"]
              ELSE IF ~signedData.forThisWallet
              THEN [BuyIdle EXCEPT !.pc = "thrown",
                                   !.result = "ADDRESS_MISMATCH"]
              ELSE [BuyIdle EXCEPT !.pc = "allowance",
                                   !.amount = signedData.usdcAmount]
    /\ UNCHANGED <<Runner, loops, pay, mdl, parse, rpc, auth, router>>

\* usdcContract.allowance() resolves with a: the first query (865-872), or a
\* check of the loop after the approval (897-921)
allowanceReturns(a) ==
    /\ buy.pc \in {"allowance", "verify"}
    /\ LET b == [buy EXCEPT !.seen = Append(buy.seen, a)]
       IN buy' =
           IF buy.pc = "allowance"
           THEN IF a < b.amount
                THEN [b EXCEPT !.pc = "approve",
                               !.approvals = b.approvals + 1]
                ELSE [b EXCEPT !.pc = "buy", !.submitted = b.submitted + 1]
           ELSE IF a >= b.amount
                THEN [b EXCEPT !.pc = "buy", !.submitted = b.submitted + 1]
                ELSE IF ChecksLeft(b.attempt)
                THEN [b EXCEPT !.pc = "syncDelay", !.attempt = b.attempt + 1]
                ELSE [b EXCEPT !.pc = "thrown",
                               !.result = "ALLOWANCE_VERIFICATION_FAILED"]
    /\ UNCHANGED <<Runner, loops, pay, mdl, parse, rpc, auth, router>>

\* A transaction call settles: approve() and approveTx.wait() (876-887),
\* buyTokensWithUSDC() and tx.wait() (950-961).  outcome is "ok", "failed"
\* (a receipt that is null or whose status is not 1) or "throws"
transactionSettles(outcome) ==
    /\ buy.pc \in {"approve", "approveWait", "buy", "buyWait"}
    /\ outcome = "failed" => buy.pc \in {"approveWait", "buyWait"}
    /\ buy' =
           IF outcome = "throws"
           THEN [buy EXCEPT !.pc = "thrown", !.result = "ethers error"]
           ELSE CASE buy.pc = "approve" -> [buy EXCEPT !.pc = "approveWait"]
                  [] buy.pc = "approveWait" ->
                         IF outcome = "failed"
                         THEN [buy EXCEPT !.pc = "thrown",
                                          !.result = "APPROVAL_FAILED"]
                         \* newAllowance = 0: the loop is entered, the first
                         \* check is made without a delay
                         ELSE [buy EXCEPT !.pc = "verify", !.attempt = 1]
                  [] buy.pc = "buy" -> [buy EXCEPT !.pc = "buyWait"]
                  [] OTHER -> [buy EXCEPT !.pc = "returned",
                                          !.result = "hash"]
    /\ UNCHANGED <<Runner, loops, pay, mdl, parse, rpc, auth, router>>

\* The delay before the second and the third check is over (902-906)
syncDelayOver ==
    /\ buy.pc = "syncDelay"
    /\ buy' = [buy EXCEPT !.pc = "verify"]
    /\ UNCHANGED <<Runner, loops, pay, mdl, parse, rpc, auth, router>>

----------------------------------------------------------------------------
(* The state after construction (752-846) *)

InitWith(configs) ==
    /\ isRunning = FALSE
    /\ isPaused = FALSE
    /\ status = "stopped"
    /\ executionMode = "gasless"
    /\ config \in configs
    /\ balance = 0
    /\ positions = <<>>
    /\ launchedTokens = <<>>
    /\ loops = EmptyBag
    /\ pay = PayIdle
    /\ mdl = ModelIdle
    /\ parse = ParseIdle
    /\ rpc = RpcIdle
    /\ auth = AuthIdle
    /\ buy = BuyIdle
    /\ router = [pc |-> "unbuilt"]
    /\ stopped = "unset"
    /\ lastExecution = "none"
    /\ historyLength = 0
    /\ winCount = 0
    /\ lossCount = 0
    /\ interval = [mode |-> "base", fastModeExpiresAt |-> "unset",
                   reported |-> "base"]

----------------------------------------------------------------------------
(* Spec: one agent in gasless mode, without dashboardUrl, whose embedder    *)
(* calls start, stop, pause and resume at any time.                        *)

RunnerConfigs ==
    [maxPositions : {1}, maxPositionSizeUSDC : {1000000},
     minBalanceUSDC : {-1}, executionMode : {"gasless"},
     hooksThrow : {FALSE}, disabledActions : {{}},
     dynamicInterval : {"none"}]

RunnerBalances == {5000, 1000000}

RunnerDecisions ==
    {Decision("buy", "0xaaa", "1", "none"),
     Decision("wait", "none", "none", "none")}

Init == InitWith(RunnerConfigs)

Next ==
    \/ start
    \/ stop
    \/ pause
    \/ resume
    \/ \E r \in Pending : enterLoop(r)
    \/ \E r \in Pending, h \in BOOLEAN : loopHead(r, h)
    \/ \E r \in Pending : wake(r)
    \/ \E r \in Pending, b \in RunnerBalances \cup {-1} : getBalanceReturns(r, b)
    \/ \E r \in Pending : getMarketDataReturns(r)
    \/ \E r \in Pending, d \in RunnerDecisions : callModelReturns(r, d)
    \/ \E r \in Pending : callModelThrows(r)
    \/ \E r \in Pending : clientReturns(r, "0xbbb")
    \/ \E r \in Pending : clientThrows(r)
    \/ \E r \in Pending, b \in RunnerBalances \cup {-1} : balanceAfterReturns(r, b)
    \/ \E r \in Pending : recordResult(r)
    \/ \E r \in Pending : executionHooksDone(r)
    \/ \E r \in Pending : catchHooksDone(r)
    \/ \E r \in Pending : cooldownOver(r)

Spec == Init /\ [][Next]_vars

----------------------------------------------------------------------------
(* SpecDispatch: one agent that is started and left running, with the      *)
(* execution mode detected from the ETH balance, and buy, sell, analyze,   *)
(* discover, wait and stop decisions (and launch decisions that lack their *)
(* parameters).                                                            *)

DispatchConfigs ==
    [maxPositions : {1, 3}, maxPositionSizeUSDC : {1000000, 8200000},
     minBalanceUSDC : {-1, 500000}, executionMode : {"auto"},
     hooksThrow : BOOLEAN, disabledActions : {{}},
     dynamicInterval : {"none"}]

DispatchBalances == {5000, 500000, 8199999, 9000000}

DispatchDecisions ==
    {Decision("buy", t, x, "none") :
        t \in {"0xaaa", "none"}, x \in UsdcAmounts \cup {"none"}}
    \cup {Decision("buy", "0xbbb", "1", "none")}
    \cup {Decision("sell", t, x, "none") :
        t \in Tokens \cup {"none"}, x \in {"1", "abc", "none"}}
    \cup {Decision("launch", "none", "none", "none")}
    \cup {Decision("analyze", t, "none", "none") : t \in {"0xaaa", "none"}}
    \cup {Decision(a, "none", "none", "none") : a \in {"discover", "wait", "stop"}}

NextDispatch ==
    \/ start
    \/ \E r \in Pending, hasEth \in BOOLEAN : hasEnoughEthReturns(r, hasEth)
    \/ \E r \in Pending : ethQueryThrows(r)
    \/ \E r \in Pending : enterLoop(r)
    \/ \E r \in Pending : loopHead(r, TRUE)
    \/ \E r \in Pending : wake(r)
    \/ \E r \in Pending, b \in DispatchBalances \cup {-1} : getBalanceReturns(r, b)
    \/ \E r \in Pending : getMarketDataReturns(r)
    \/ \E r \in Pending, d \in DispatchDecisions : callModelReturns(r, d)
    \/ \E r \in Pending : callModelThrows(r)
    \/ \E r \in Pending : clientReturns(r, "0xbbb")
    \/ \E r \in Pending : onchainReturns(r)
    \/ \E r \in Pending : clientThrows(r)
    \/ \E r \in Pending, b \in DispatchBalances \cup {-1} : balanceAfterReturns(r, b)
    \/ \E r \in Pending : recordResult(r)
    \/ \E r \in Pending : executionHooksDone(r)
    \/ \E r \in Pending : catchHooksDone(r)
    \/ \E r \in Pending : cooldownOver(r)

SpecDispatch == InitWith(DispatchConfigs) /\ [][NextDispatch]_vars

----------------------------------------------------------------------------
(* SpecLaunch: one agent in gasless mode whose model decides to launch     *)
(* tokens under tickers of every shape, or to wait.                        *)

Tickers ==
    {"ab", "abc", "Ab1", "a-c", "ab c", "abcdefghij", "abcdefghijk"}

LaunchDecisions ==
    {Decision("launch", "none", "none", k) : k \in Tickers \cup {"none"}}
    \cup {Decision("wait", "none", "none", "none")}

\* without actionPriorities, or with those of the conservative preset, which
\* disable launch
LaunchConfigs ==
    [maxPositions : {1}, maxPositionSizeUSDC : {1000000},
     minBalanceUSDC : {-1}, executionMode : {"gasless"},
     hooksThrow : {FALSE}, disabledActions : {{}, {"launch"}},
     dynamicInterval : {"none"}]

NextLaunch ==
    \/ start
    \/ \E r \in Pending : enterLoop(r)
    \/ \E r \in Pending : loopHead(r, TRUE)
    \/ \E r \in Pending : wake(r)
    \/ \E r \in Pending : getBalanceReturns(r, 1000000)
    \/ \E r \in Pending : getMarketDataReturns(r)
    \/ \E r \in Pending, d \in LaunchDecisions : callModelReturns(r, d)
    \/ \E r \in Pending, t \in Tokens : clientReturns(r, t)
    \/ \E r \in Pending : clientThrows(r)
    \/ \E r \in Pending : balanceAfterReturns(r, 1000000)
    \/ \E r \in Pending : recordResult(r)
    \/ \E r \in Pending : executionHooksDone(r)

SpecLaunch == InitWith(LaunchConfigs) /\ [][NextLaunch]_vars

----------------------------------------------------------------------------
(* OpenRouterProvider (ai-provider.ts 533-598).  The models are numbered   *)
(* 1..NumModels in the order selectModels() returns them.  router is       *)
(*   pc         : "unbuilt", "idle", "calling" (callSingleModel is          *)
(*                awaited), "returned" or "thrown"                          *)
(*   enableFallback, maxRetriesPerModel : this.config                       *)
(*   retryCount : this.retryCount, 0 for a model without an entry; counts   *)
(*                above MaxCounted are not told apart                       *)
(*   model      : the model of the awaited callSingleModel                  *)
(*   called     : how many models this callModel() has called               *)

\* new OpenRouterProvider(cfg): enableFallback defaults to true and
\* maxRetriesPerModel to 2 (-1 stands for an absent maxRetriesPerModel)
OpenRouterProvider(cfg) ==
    /\ router.pc = "unbuilt"
    /\ router' = [pc |-> "idle",
                  enableFallback |-> cfg.enableFallback,
                  maxRetriesPerModel |-> IF cfg.maxRetriesPerModel = -1
                                         THEN 2 ELSE cfg.maxRetriesPerModel,
                  retryCount |-> [m \in 1..NumModels |-> 0],
                  model |-> 0, called |-> 0]
    /\ UNCHANGED <<Runner, loops, pay, mdl, parse, rpc, auth, buy>>

\* callModel() up to the first await: the first selected model is called
routerCallModel ==
    /\ router.pc \in {"idle", "returned", "thrown"}
    /\ router' = [router EXCEPT !.pc = "calling", !.model = 1, !.called = 1]
    /\ UNCHANGED <<Runner, loops, pay, mdl, parse, rpc, auth, buy>>

\* callSingleModel() resolves (ok) or rejects: the rest of the loop body
\* (573-593) and, past the last model, the throw of lastError (597)
callSingleModelSettles(ok) ==
    /\ router.pc = "calling"
    /\ LET model == router.model
           retries == IF router.retryCount[model] < MaxCounted
                      THEN router.retryCount[model] + 1
                      ELSE router.retryCount[model]
           counted == [router EXCEPT !.retryCount[model] = retries]
           nextModel == IF model < NumModels
                        THEN [counted EXCEPT !.model = model + 1,
                                             !.called = router.called + 1]
                        ELSE [counted EXCEPT !.pc = "thrown"]
       IN router' =
              IF ok
              THEN [router EXCEPT !.pc = "returned", !.retryCount[model] = 0]
              ELSE IF retries >= (IF router.maxRetriesPerModel = 0
                                  THEN 2 ELSE router.maxRetriesPerModel)
              THEN nextModel
              ELSE IF ~router.enableFallback
              THEN [counted EXCEPT !.pc = "thrown"]
              ELSE nextModel
    /\ UNCHANGED <<Runner, loops, pay, mdl, parse, rpc, auth, buy>>

NextRouter ==
    \/ \E cfg \in [enableFallback : BOOLEAN,
                    maxRetriesPerModel : {-1, 0, 1, 2, 3}] :
           OpenRouterProvider(cfg)
    \/ routerCallModel
    \/ \E ok \in BOOLEAN : callSingleModelSettles(ok)

SpecRouter == InitWith(RunnerConfigs) /\ [][NextRouter]_vars

----------------------------------------------------------------------------
(* SpecInterval: the loop under the dynamic intervals of the three presets, *)
(* inside and outside the working hours, with a balance below and above    *)
(* twice the default minimum, while the clock may pass the end of fast     *)
(* mode.                                                                   *)

NextInterval ==
    \/ start
    \/ \E r \in Pending : enterLoop(r)
    \/ \E r \in Pending, withinHours \in BOOLEAN : loopHead(r, withinHours)
    \/ \E r \in Pending : wake(r)
    \/ \E r \in Pending, b \in {900000, 5000000} : getBalanceReturns(r, b)
    \/ \E r \in Pending : getMarketDataReturns(r)
    \/ \E r \in Pending,
          d \in {Decision("buy", "0xaaa", "1", "none"),
                 Decision("sell", "0xaaa", "1", "none"),
                 Decision("launch", "none", "none", "abc"),
                 Decision("wait", "none", "none", "none")} :
           callModelReturns(r, d)
    \/ \E r \in Pending : clientReturns(r, "0xbbb")
    \/ \E r \in Pending : clientThrows(r)
    \/ \E r \in Pending, b \in {900000, 5000000} : balanceAfterReturns(r, b)
    \/ \E r \in Pending : recordResult(r)
    \/ \E r \in Pending : executionHooksDone(r)
    \/ fastModeElapses

SpecInterval ==
    /\ InitWith([maxPositions : {3}, maxPositionSizeUSDC : {1000000},
                 minBalanceUSDC : {-1}, executionMode : {"gasless"},
                 hooksThrow : {FALSE}, disabledActions : {{}},
                 dynamicInterval : DOMAIN IntervalPresets])
    /\ [][NextInterval]_vars

----------------------------------------------------------------------------
(* SpecHeader: one payment header is created and decoded.  The strings are *)
(* short stand-ins of the addresses, the nonce and the signature; the      *)
(* amounts are strings BigInt() accepts, one with a trailing line feed.    *)

\* payer, asset and recipient "0xAb" or "0x1f9"; amount "1000000", "25" or
\* "1" and a line feed; nonce "0x7a" or "0x00ff"; signature "0x1b" or
\* "0x9c1cd"
HeaderInputs ==
    [payer : {<<48, 120, 65, 98>>, <<48, 120, 49, 102, 57>>},
     amount : {<<49, 48, 48, 48, 48, 48, 48>>, <<50, 53>>, <<49, 10>>},
     asset : {<<48, 120, 65, 98>>, <<48, 120, 49, 102, 57>>},
     recipient : {<<48, 120, 65, 98>>, <<48, 120, 49, 102, 57>>},
     nonce : {<<48, 120, 55, 97>>, <<48, 120, 48, 48, 102, 102>>},
     signature : {<<48, 120, 49, 98>>, <<48, 120, 57, 99, 49, 99, 100>>},
     timestamp : {999, 1762300000},
     ok : {TRUE}]

NextHeader ==
    \/ \E payload \in HeaderInputs : createX402PaymentHeader(payload)
    \/ headerDecoded

SpecHeader == InitWith(RunnerConfigs) /\ [][NextHeader]_vars

----------------------------------------------------------------------------
(* SpecPositions: one agent with room for three positions, in either       *)
(* execution mode, whose model buys, sells, launches, analyzes or waits,   *)
(* and whose embedder calls sellAllPositions() at any time.                *)

PositionDecisions ==
    {Decision("buy", t, "1", "none") : t \in Tokens}
    \cup {Decision("buy", "0xaaa", "none", "none")}
    \cup {Decision("sell", t, "1", "none") : t \in Tokens}
    \cup {Decision("launch", "none", "none", "abc"),
          Decision("analyze", "0xaaa", "none", "none"),
          Decision("discover", "none", "none", "none"),
          Decision("wait", "none", "none", "none")}

InitPositions ==
    InitWith({c \in DispatchConfigs :
                 /\ c.maxPositions = 3
                 /\ c.maxPositionSizeUSDC = 1000000
                 /\ c.minBalanceUSDC = -1
                 /\ ~c.hooksThrow})

NextPositions ==
    \/ start
    \/ sellAllPositions
    \/ \E r \in Pending, hasEth \in BOOLEAN : hasEnoughEthReturns(r, hasEth)
    \/ \E r \in Pending : enterLoop(r)
    \/ \E r \in Pending : loopHead(r, TRUE)
    \/ \E r \in Pending : wake(r)
    \/ \E r \in Pending : getBalanceReturns(r, 9000000)
    \/ \E r \in Pending : getMarketDataReturns(r)
    \/ \E r \in Pending, d \in PositionDecisions : callModelReturns(r, d)
    \/ \E r \in Pending : clientReturns(r, "0xbbb")
    \/ \E r \in Pending : onchainReturns(r)
    \/ \E r \in Pending : clientThrows(r)
    \/ \E r \in Pending, o \in {"ok", "throws"} : sweepSettles(r, o)
    \/ \E r \in Pending : balanceAfterReturns(r, 9000000)
    \/ \E r \in Pending : recordResult(r)
    \/ \E r \in Pending : executionHooksDone(r)

SpecPositions == InitPositions /\ [][NextPositions]_vars

----------------------------------------------------------------------------
(* SpecPayment: one requestWithPayment call and one callModel call at a    *)
(* time, against a platform that may answer each request in any way.       *)

NextPayment ==
    \/ requestWithPayment
    \/ \E reply \in PlatformReplies : apiRequestSettles(reply)
    \/ paymentHeaderCreated
    \/ paymentHeaderFails
    \/ backoffOver
    \/ callModel
    \/ \E outcome \in FetchOutcomes : fetchSettles(outcome)
    \/ fetchRetried
    \/ modelHeaderCreated
    \/ modelHeaderFails

SpecPayment == InitWith(RunnerConfigs) /\ [][NextPayment]_vars

----------------------------------------------------------------------------
(* SpecBuy: executeBuyTransaction calls, one after the other, for signed   *)
(* data of every kind, against a chain that answers the allowance queries  *)
(* with any value.                                                         *)

NextBuy ==
    \/ \E signedData \in [usdcAmount : {2, 5}, expired : BOOLEAN,
                           forThisWallet : BOOLEAN] :
           executeBuyTransaction(signedData)
    \/ \E a \in {0, 1, 2, 4, 5, 6} : allowanceReturns(a)
    \/ \E outcome \in {"ok", "failed", "throws"} : transactionSettles(outcome)
    \/ syncDelayOver

SpecBuy == InitWith(RunnerConfigs) /\ [][NextBuy]_vars

----------------------------------------------------------------------------
(* SpecParse: parseDecision applied to every reply of up to MaxReplyLen    *)
(* lexemes.                                                                *)

InitParse ==
    /\ isRunning = FALSE
    /\ isPaused = FALSE
    /\ status = "stopped"
    /\ executionMode = "gasless"
    /\ config \in RunnerConfigs
    /\ balance = 0
    /\ positions = <<>>
    /\ launchedTokens = <<>>
    /\ loops = EmptyBag
    /\ pay = PayIdle
    /\ mdl = ModelIdle
    /\ rpc = RpcIdle
    /\ auth = AuthIdle
    /\ buy = BuyIdle
    /\ router = [pc |-> "unbuilt"]
    /\ stopped = "unset"
    /\ lastExecution = "none"
    /\ historyLength = 0
    /\ winCount = 0
    /\ lossCount = 0
    /\ interval = [mode |-> "base", fastModeExpiresAt |-> "unset",
                   reported |-> "base"]
    /\ \E first \in TextsUpTo(1), rest \in TextsUpTo(MaxReplyLen - 1) :
           parse = [ParseIdle EXCEPT !.response = first \o rest]

NextParse == parseDecisionReturns

SpecParse == InitParse /\ [][NextParse]_vars

----------------------------------------------------------------------------
(* SpecRpc: calls on one RobustProvider, one after the other, with an      *)
(* operation that may settle in any way at each attempt.                   *)

NextRpc ==
    \/ rpcCall
    \/ \E outcome \in RpcOutcomes : rpcAttemptSettles(outcome)
    \/ rpcBackoffOver

SpecRpc == InitWith(RunnerConfigs) /\ [][NextRpc]_vars

----------------------------------------------------------------------------
(* Properties of the runner *)

\* the number of pending start() calls suspended at one of the places S
CountAt(S) ==
    BagCardinality([r \in {x \in Pending : x.pc \in S} |-> loops[r]])

NumInLoop == BagCardinality([r \in {x \in Pending : InLoop(x)} |-> loops[r]])

NumInCycle == BagCardinality([r \in {x \in Pending : InCycle(x)} |-> loops[r]])

\* C1: under every interleaving of start, stop, pause and resume at most one
\* execution loop is active and no cycle overlaps another cycle.
C1_OneLoopNoOverlap == NumInLoop <= 1 /\ NumInCycle <= 1

\* C2: a cycle that throws is caught, the loop sleeps the cooldown and goes
\* back to the top of the loop; a loop ends only at the top of an iteration
\* and only with the running flag cleared.
C2_LoopSurvivesFailure ==
    [][ /\ CountAt({"catchHooks"})' < CountAt({"catchHooks"})
            => CountAt({"cooldown"})' > CountAt({"cooldown"})
        /\ CountAt({"cooldown"})' < CountAt({"cooldown"})
            => CountAt({"head"})' > CountAt({"head"})
        /\ NumInLoop' < NumInLoop
            => ~isRunning /\ CountAt({"head"})' < CountAt({"head"})
      ]_vars

\* C2 witness: a cycle threw while the agent is running; the loop caught it
\* and sleeps the cooldown.
C2_Witness ==
    isRunning /\ \E r \in Pending : r.pc = "cooldown" /\ r.err = "thrown"

C4_PositionsWithinMax ==
    /\ Len(positions) <= config.maxPositions
    /\ \A r \in Pending : r.op = "buy" => r.gnpos < config.maxPositions

\* C5: a buy handed to the trading client never exceeds state.balance; a buy
\* whose clamped amount exceeds it is a failed outcome with no client call
\* and no new position.
C5_BuyWithinBalance ==
    \A r \in Pending :
        /\ r.op = "buy" => r.amt <= r.gbal
        /\ r.err = "Insufficient balance"
              => ~r.ok /\ r.op = "none" /\ r.act = "buy"
                 /\ (r.pc = "balanceAfter" => Len(positions) = r.gnpos)

\* C5 witness: a buy was rejected for exceeding the balance.
C5_Witness ==
    \E r \in Pending : r.pc = "balanceAfter" /\ r.err = "Insufficient balance"

\* The decimal usdcAmount times 10^6 in exact arithmetic: whole part and
\* whether a fraction remains
ExactWhole(s) ==
    CASE s = "0.5" -> 500000
      [] s = "1" -> 1000000
      [] s = "8.2" -> 8200000
      [] s = "8.2000000000000001" -> 8200000
      [] s = "9" -> 9000000
      [] OTHER -> 0

ExactHasFraction(s) == s = "8.2000000000000001"

ExactExceeds(s, max) ==
    ExactWhole(s) > max \/ (ExactWhole(s) = max /\ ExactHasFraction(s))

\* C6: a buy whose usdcAmount times 10^6 exceeds maxPositionSizeUSDC is sent
\* to the trading client with exactly maxPositionSizeUSDC.
C6_ClampIsExact ==
    \A r \in Pending :
        r.op = "buy" /\ ExactExceeds(r.inp, config.maxPositionSizeUSDC)
            => r.amt = config.maxPositionSizeUSDC

----------------------------------------------------------------------------
(* Properties of the request layers *)

\* C7: for every reply text parseDecision returns a decision whose action
\* is one of buy, sell, launch, discover, analyze, wait, stop; it never
\* throws.
C7_ParseAlwaysDecides ==
    parse.done =>
        /\ ~parse.decision.threw
        /\ parse.decision.action \in
               {"buy", "sell", "launch", "discover", "analyze", "wait", "stop"}

\* C7 witness: a reply with malformed JSON and no usable action was parsed;
\* the exception raised inside was turned into a wait decision.
C7_Witness ==
    /\ parse.done
    /\ parse.decision.reasoning = "Parse error"
    /\ parse.decision.action = "wait"

\* C8: whenever a request without authorization is answered 402 with payment
\* requirements, whatever was answered before, an authorization is created
\* and the request is retried with it exactly once.
C8_PaymentRequiredIsPaidOnce ==
    \A i \in 1..Len(pay.answers) :
        pay.sent[i] = 0 /\ pay.answers[i] = "402+accepts"
            => /\ \/ pay.pc = "signing"
                  \/ pay.result = "SIGNING_FAILED"
                  \/ pay.signed = 1 /\ Len(pay.sent) > i
               /\ Cardinality({j \in 1..Len(pay.sent) : pay.sent[j] # 0}) <= 1

\* C9: a 402 answer to the request that carried the authorization makes
\* requestWithPayment throw PAYMENT_VERIFICATION_FAILED at once: no second
\* authorization, no further request.
C9_SecondPaymentRequiredFails ==
    \A i \in 1..Len(pay.answers) :
        pay.sent[i] # 0 /\ pay.answers[i] \in {"402", "402+accepts"}
            => /\ pay.pc = "thrown"
               /\ pay.result = "PAYMENT_VERIFICATION_FAILED"
               /\ pay.signed = 1
               /\ Len(pay.sent) = i

\* C10: no authorization is attached to more than one HTTP request, in
\* requestWithPayment and in callModel.
C10_AuthorizationsNotReused ==
    /\ \A i, j \in 1..Len(pay.sent) :
           i < j /\ pay.sent[i] # 0 => pay.sent[j] # pay.sent[i]
    /\ \A i, j \in 1..Len(mdl.sent) :
           i < j /\ mdl.sent[i] # 0 => mdl.sent[j] # mdl.sent[i]

----------------------------------------------------------------------------
(* Properties of the RobustProvider *)

AllRetryable(log) == \A k \in 1..Len(log) : IsRetryable(log[k].outcome)

\* C11: a call whose operation raised a retryable error at every attempt
\* fails after exactly NumEndpoints * MaxRetries attempts, wherever the
\* endpoint pointer stood when it began; no call makes more attempts.
C11_RetryBudgetIsExact ==
    /\ Len(rpc.log) <= NumEndpoints * MaxRetries
    /\ rpc.pc = "thrown" /\ AllRetryable(rpc.log)
          => Len(rpc.log) = NumEndpoints * MaxRetries

\* C12: when the endpoint the call starts on fails every attempt with a
\* retryable error, the call moves to the next endpoint of the list after
\* exactly MaxRetries attempts, never earlier, and if that endpoint
\* succeeds the call returns its result.
C12_FallbackAfterBudget ==
    /\ \A k \in 1..Len(rpc.log) :
           k <= MaxRetries => rpc.log[k].endpoint = rpc.log[1].endpoint
    /\ Len(rpc.log) > MaxRetries
          => /\ \A k \in 1..MaxRetries : IsRetryable(rpc.log[k].outcome)
             /\ rpc.log[MaxRetries + 1].endpoint = rpc.log[1].endpoint + 1
             /\ rpc.log[MaxRetries + 1].outcome = "ok"
                   => /\ rpc.pc = "returned"
                      /\ rpc.result = rpc.log[1].endpoint + 1
                      /\ Len(rpc.log) = MaxRetries + 1

\* C12 witness: the first endpoint failed MaxRetries times and the call
\* returned the answer of the second.
C12_Witness ==
    /\ rpc.pc = "returned"
    /\ Len(rpc.log) = MaxRetries + 1
    /\ rpc.log[1].endpoint = 0
    /\ rpc.result = 1

----------------------------------------------------------------------------
(* Properties of the cycle *)

\* ps without its earliest entry for asset a; ps itself if there is none
WithoutEarliest(ps, a) ==
    LET hits == {i \in 1..Len(ps) : ps[i] = a}
    IN IF hits = {} THEN ps
       ELSE LET first == CHOOSE i \in hits : \A j \in hits : i <= j
            IN SubSeq(ps, 1, first - 1) \o SubSeq(ps, first + 1, Len(ps))

\* C13: a sell that succeeds removes the earliest tracked position of its
\* asset and nothing else, the others keeping their order; with no position
\* of the asset it succeeds and leaves the positions as they are.
C13_SellRemovesEarliest ==
    [][ \A r \in Pending :
            /\ r.op = "sell"
            /\ r.pc \in {"client", "onchain"}
            /\ \E q \in BagToSet(loops') : q.pc = "balanceAfter" /\ q.ok
            => positions' = WithoutEarliest(positions, r.tok)
      ]_vars

\* C13 witness: a sell succeeded and left the positions 0xbbb, 0xaaa, the
\* older of two 0xaaa positions being gone.
C13_Witness ==
    /\ positions = <<"0xbbb", "0xaaa">>
    /\ \E r \in Pending : r.pc = "balanceAfter" /\ r.act = "sell" /\ r.ok

\* C14: a cycle whose fetched balance is below the minimum ends at once as
\* a failed "wait" with error "Low balance", having sent nothing to the
\* market endpoint, the model or the trading client; a cycle goes past the
\* gate exactly when its balance is at least the minimum.
C14_LowBalanceGate ==
    \A r \in Pending :
        /\ r.pc \in {"market", "model", "client", "onchain"}
              => balance >= MinBalance
        /\ r.err = "Low balance"
              => ~r.ok /\ r.act = "wait" /\ r.net = 0
        /\ r.pc = "record" /\ r.net = 0
              => balance < MinBalance /\ r.err = "Low balance"

\* C14 witness: a cycle was cut short by the gate with the balance below a
\* configured minimum.
C14_Witness ==
    /\ config.minBalanceUSDC = 500000
    /\ \E r \in Pending :
           r.pc = "record" /\ r.err = "Low balance" /\ balance < 500000

\* C14 witness of the boundary: a balance equal to the minimum passed.
C14_AtMinimumPasses ==
    \E r \in Pending : r.pc = "market" /\ balance = MinBalance

\* C15: once stop() has cleared the running flag, and until a later
\* start(), no pending loop starts a further cycle and none begins a
\* further review-interval sleep; a cycle in flight may finish and have
\* its result recorded.
C15_StopEndsLoopBeforeSleep ==
    [][ ~isRunning =>
          /\ CountAt({"getBalance"})' <= CountAt({"getBalance"})
          /\ CountAt({"sleep"})' <= CountAt({"sleep"}) ]_vars

\* C16: while the pause flag is set no loop iteration starts a cycle: an
\* iteration that begins with the flag set fetches no balance, and so calls
\* no model, dispatches nothing and records no result; it sleeps and tests
\* the flag again, and after resume() the next iteration runs a cycle.
C16_PausedStartsNoCycle ==
    [][ /\ CountAt({"getBalance"})' > CountAt({"getBalance"}) => ~isPaused
        /\ \A r \in Pending :
              (/\ isRunning /\ isPaused /\ r.pc = "head"
               /\ CopiesIn(r, loops') < CopiesIn(r, loops))
                 => CopiesIn([r EXCEPT !.pc = "skipSleep"], loops')
                      > CopiesIn([r EXCEPT !.pc = "skipSleep"], loops) ]_vars

\* C16 witness: a running, paused agent whose loop skipped its cycle and is
\* in the one-second sleep.
C16_Witness ==
    isRunning /\ isPaused /\ \E r \in Pending : r.pc = "skipSleep"

\* C17: while the agent is running no call adds a pending start(), and so
\* no second loop: start() on a running agent throws before it writes a
\* flag, the status or startedAt, and before it calls a hook.  The running
\* flag is set only by a step that adds such a call.
C17_StartWhileRunningRejected ==
    [][ /\ isRunning => BagCardinality(loops') <= BagCardinality(loops)
        /\ isRunning /\ isPaused /\ ~isPaused'
              => BagCardinality(loops') = BagCardinality(loops)
        /\ ~isRunning /\ isRunning'
              => BagCardinality(loops') = BagCardinality(loops) + 1 ]_vars

\* C17 witness: a running, paused agent with one pending start(); an accepted
\* second start() would clear the pause flag and add a second pending call.
C17_Witness ==
    isRunning /\ isPaused /\ BagCardinality(loops) = 1

\* C18: stop() on an agent that is already stopped does nothing: stoppedAt
\* is not written again and the stop hooks are not called again.
C18_StopOnStoppedIsNoOp == stopped # "stop again"

\* C19: the state a pause() leaves (pause flag, running flag, status,
\* balance and positions) is the state a second pause() right after it
\* leaves as well.
C19_PauseTwiceIsPauseOnce ==
    [][ pause => /\ RunnerState' = AfterPause(RunnerState)
                 /\ AfterPause(RunnerState)' = RunnerState' ]_vars

\* C19 witness: a paused agent that holds a position.
C19_Witness ==
    isRunning /\ isPaused /\ status = "paused" /\ Len(positions) > 0

\* C20: a hook that throws does not keep the other hook supplied for the
\* same event from being called: whenever the execution hooks were run for
\* a result, config.onExecution was called, also when hooks.onExecution
\* threw; and the exception does not end the loop.
C20_HooksIsolated ==
    \A r \in Pending :
        r.pc \in {"execHook", "catchHooks", "cooldown", "sleep"}
            => r.cb = r.delivered

\* /^[A-Z0-9]{3,10}$/ on an upper-cased ticker, by cases
TickerIsValid(ticker) ==
    ticker \in {"abc", "Ab1", "abcdefghij"}

\* C21: a launch decision whose upper-cased ticker is not 3 to 10
\* alphanumeric characters ends as a failed outcome with no request to the
\* trading platform, and the launched-token list changes only when a
\* launch with a valid ticker was answered.
C21_InvalidTickerNotSent ==
    /\ [](\A r \in Pending :
            /\ r.op = "launch" => TickerIsValid(r.inp)
            /\ (r.act = "launch" /\ r.inp \in Tickers /\ ~TickerIsValid(r.inp))
                  => ~r.ok /\ r.err = "Invalid ticker" /\ r.net = 2)
    /\ [][ launchedTokens' # launchedTokens =>
             \E r \in Pending :
                 r.pc = "client" /\ r.op = "launch" /\ TickerIsValid(r.inp)
       ]_vars

\* C21 witness: the decision to launch "ab" was turned into a failed
\* outcome while a token launched before stays the only one listed.
C21_Witness ==
    /\ Len(launchedTokens) = 1
    /\ \E r \in Pending :
          /\ r.pc = "record" /\ r.act = "launch" /\ r.inp = "ab"
          /\ ~r.ok /\ r.net = 2

\* The phase the claim gives to each step of a cycle
PhaseOf(r) ==
    CASE r.pc = "market" -> "fetching_market"
      [] r.pc = "model" -> "calling_ai"
      [] r.pc \in {"client", "onchain"} -> "executing_action"
      [] r.pc \in {"record", "execHook"} -> "recording_result"
      [] r.pc = "sleep" -> "waiting"
      [] r.pc \in {"catchHooks", "cooldown"} -> "error"
      [] OTHER -> "any"

\* C22: the one active phase is the phase of the step the cycle is in
\* (fetching_market, ..., calling_ai, ..., executing_action,
\* recording_result, waiting, or error), and it was handed to
\* onPhaseChange when it was entered.
C22_PhaseFollowsCycle ==
    \A r \in Pending :
        PhaseOf(r) # "any" =>
            /\ currentPhase = PhaseOf(r)
            /\ Len(phaseChanges) > 0
            /\ phaseChanges[Len(phaseChanges)] = PhaseOf(r)

\* C23: the prompt of a cycle lists the last recorded results (five at
\* most), so the cycle after a failed one shows that failure to the model.
C23_PromptShowsRecentHistory ==
    \A r \in Pending :
        r.pc = "model" =>
            /\ Len(r.shown) <= 5
            /\ lastExecution = "failure" =>
                  /\ Len(r.shown) > 0
                  /\ r.shown[Len(r.shown)] = "failure"

\* C24: a decision whose action the configured action priorities do not
\* allow is never handed to the trading client.
C24_DisallowedNotDispatched ==
    \A r \in Pending :
        r.pc \in {"client", "onchain"} => r.op \notin actionCooldowns

\* C25: decoding the header of a payment authorization gives back its
\* payer, amount, asset, recipient, nonce, timestamp and signature.
C25_HeaderRoundTrip ==
    auth.pc = "decoded" => auth.decoded = auth.payload

\* C25 witness: a header whose JSON text needed an escape and whose base64
\* form ends in padding was decoded.
C25_Witness ==
    /\ auth.pc = "decoded"
    /\ auth.decoded.ok
    /\ 10 \in {auth.payload.amount[i] : i \in 1..Len(auth.payload.amount)}
    /\ auth.header[Len(auth.header)] = 61

\* C26: executeDecision never throws: a request to the trading client or
\* an on-chain execution that is pending ends by continuing the dispatch
\* or by handing an outcome to the cycle, a thrown one as a failed outcome
\* with the error, and the cycle records that outcome.
C26_DispatchNeverThrows ==
    /\ [][ \A r \in Pending :
              (r.pc \in {"client", "onchain"} /\ r \notin BagToSet(loops'))
                 => \E q \in BagToSet(loops') :
                        /\ q.pc \in {"onchain", "balanceAfter"}
                        /\ q.act = r.act
                        /\ q.pc = "balanceAfter" /\ ~q.ok
                              => q.err = "client error" ]_vars
    /\ [](\A r \in Pending :
            /\ r.err = "client error"
                  => ~r.ok /\ r.pc \in {"balanceAfter", "record", "execHook",
                                        "sleep"}
            /\ r.err = "client error" /\ r.pc \in {"execHook", "sleep"}
                  => r.recorded = 1)

\* C26 witness: the result of a cycle whose buy request threw is being
\* recorded as a failed buy.
C26_Witness ==
    \E r \in Pending :
        r.pc = "execHook" /\ r.act = "buy" /\ r.err = "client error" /\ ~r.ok

\* qs is ps without one position of token t
RemovedOne(ps, qs, t) ==
    \E i \in 1..Len(ps) :
        ps[i] = t /\ qs = SubSeq(ps, 1, i - 1) \o SubSeq(ps, i + 1, Len(ps))

\* the step ends the trading call of r as a success of the dispatch
DispatchSucceeds(r) ==
    /\ r.pc \in {"client", "onchain"}
    /\ CopiesIn(r, loops') < CopiesIn(r, loops)
    /\ \E q \in BagToSet(loops') : q.pc = "balanceAfter" /\ q.ok /\ q.act = r.act

\* C27: the position list changes only by the append of one position when
\* the trading call (and on-chain execution) of a buy has succeeded, also
\* when the token is held already, and by the removal of one position of
\* the token of a sell that is being settled; every successful buy appends,
\* and failed dispatches and launch, analyze, discover and wait dispatches
\* leave the list as it is.
C27_PositionsChangeByBuyAndSell ==
    [][ /\ positions' # positions =>
              \/ \E r \in Pending :
                     /\ r.op = "buy" /\ DispatchSucceeds(r)
                     /\ positions' = Append(positions, r.tok)
              \/ \E r \in Pending :
                     /\ r.op = "sell" /\ CopiesIn(r, loops') < CopiesIn(r, loops)
                     /\ r.pc \in {"sweepClient", "sweepOnchain"}
                           \/ DispatchSucceeds(r)
                     /\ RemovedOne(positions, positions', r.tok)
        /\ \A r \in Pending :
              r.op = "buy" /\ DispatchSucceeds(r)
                  => positions' = Append(positions, r.tok)
        /\ \A r \in Pending :
              (r.pc \in {"client", "onchain"} /\ CopiesIn(r, loops') < CopiesIn(r, loops)
               /\ ~DispatchSucceeds(r)) => positions' = positions ]_vars

\* C27 witness: a second buy of a token already held has just succeeded
\* and the token has two positions.
C27_Witness ==
    /\ positions = <<"0xaaa", "0xaaa">>
    /\ \E r \in Pending : r.pc = "balanceAfter" /\ r.act = "buy" /\ r.ok

\* C28: status moves only from stopped to running by start(), between
\* running and paused by pause() and resume(), between running and error by
\* a failed cycle and its recovery, and to stopped by stop(): a stopped
\* status stays until a start(), a paused one until resume() or stop().
C28_StatusStateMachine ==
    [][ /\ status = "stopped" /\ status' # "stopped"
              => ~isRunning /\ isRunning' /\ status' = "running"
        /\ status = "paused" /\ status' # "paused"
              => /\ status' \in {"running", "stopped"}
                 /\ ~isPaused' \/ ~isRunning'
        /\ status = "running" /\ status' # "running"
              => status' \in {"paused", "error", "stopped"}
        /\ status = "error" /\ status' # "error"
              => status' \in {"running", "stopped"} ]_vars

\* C29: when start() has failed before the loop was entered, no start()
\* call being pending, the running flag is false and the status is not
\* 'running', so that the next start() is accepted.
C29_FailedStartLeavesStopped ==
    loops = EmptyBag => ~isRunning /\ status # "running" /\ ~AlreadyRunning

\* C30: every result handed to the execution hooks, the failed result made
\* for a cycle that threw included, was pushed to the execution history
\* and is the last execution of the status.
C30_DeliveredResultsAreRecorded ==
    \A r \in Pending :
        /\ r.recorded = r.delivered
        /\ r.pc = "catchHooks" => lastExecution = "failure"

----------------------------------------------------------------------------
\* C31: the execution history has a fixed maximum length, older entries being
\* dropped when a result is appended at the maximum: however many results
\* the loop records, the history stays below MaxHistory entries.
C31_HistoryIsBounded == historyLength < MaxHistory

----------------------------------------------------------------------------
----------------------------------------------------------------------------
\* C33: an error of call() that is neither a rate limit nor a transient
\* network error is rethrown after the attempt that raised it: the call has
\* ended with that error, no attempt follows on any endpoint and the
\* current-endpoint pointer is where it was at that attempt.
C33_OtherErrorsPropagateAtOnce ==
    \A k \in 1..Len(rpc.log) :
        rpc.log[k].outcome \in {"revert", "revert+429"}
            => /\ rpc.pc = "thrown"
               /\ rpc.result = rpc.log[k].outcome
               /\ Len(rpc.log) = k
               /\ rpc.currentIndex = rpc.log[k].endpoint

----------------------------------------------------------------------------
\* C34: the action-only fallback of parseDecision returns the matched action
\* with params: {} (ai-provider.ts 407-415), the decision without any
\* parameter.  Dispatching such a decision sends nothing to the trading
\* platform and leaves positions, launched tokens and balance alone: buy,
\* sell, launch and analyze fail for missing parameters, discover, wait and
\* stop succeed without doing anything.
C34_FallbackDecisionSendsNothing ==
    [][\A r \in Pending, a \in validActions :
          callModelReturns(r, Decision(a, "none", "none", "none"))
              => /\ \A q \in BagToSet(loops') :
                        /\ q.pc = "balanceAfter"
                        /\ q.act = a
                        /\ q.net = r.net
                        /\ q.ok = (a \in {"discover", "wait", "stop"})
                        /\ q.err = CASE a = "buy" -> "Missing buy parameters"
                                     [] a = "sell" -> "Missing sell parameters"
                                     [] a = "launch" -> "Missing launch parameters"
                                     [] a = "analyze" -> "Missing token address"
                                     [] OTHER -> "none"
                 /\ UNCHANGED <<positions, launchedTokens, balance>>]_vars

\* a fallback buy was refused while the agent held a position
C34_Witness ==
    \E r \in Pending :
        /\ r.pc = "balanceAfter"
        /\ r.act = "buy"
        /\ r.err = "Missing buy parameters"
        /\ positions # <<>>

----------------------------------------------------------------------------
\* C35: executeBuyTransaction sends the buy only when the allowance it
\* observed last is at least the amount; after an approval it queries the
\* allowance at most 3 times, and if the third answer is still too low it
\* throws ALLOWANCE_VERIFICATION_FAILED and has sent no buy.
C35_BuyOnlyWithAllowance ==
    LET last == buy.seen[Len(buy.seen)]
    IN /\ buy.submitted <= 1
       /\ buy.submitted = 1 => buy.seen # <<>> /\ last >= buy.amount
       /\ buy.approvals <= 1
       /\ Len(buy.seen) <= 1 + 3 * buy.approvals
       /\ Len(buy.seen) = 4 /\ last < buy.amount
             => /\ buy.pc = "thrown"
                /\ buy.result = "ALLOWANCE_VERIFICATION_FAILED"
       /\ buy.result = "ALLOWANCE_VERIFICATION_FAILED" => buy.submitted = 0

\* the approval was confirmed, but three queries still showed too little
C35_Witness ==
    /\ buy.result = "ALLOWANCE_VERIFICATION_FAILED"
    /\ buy.amount = 5
    /\ buy.seen = <<2, 2, 4, 4>>

----------------------------------------------------------------------------
\* C37: winCount and lossCount change only when the loop records a result,
\* and then only for a successful buy or sell that carries both balances:
\* winCount goes up by one when balanceAfter is above balanceBefore,
\* lossCount when it is below; every other result leaves both as they are.
\* (A counter that has reached MaxTrades is not counted further.)
C37_CountersFollowTrades ==
    [][/\ \A r \in Pending :
             recordResult(r) =>
                 LET trade == /\ r.ok /\ r.act \in {"buy", "sell"}
                              /\ r.before # -1 /\ r.after # -1
                 IN /\ winCount' = IF trade /\ r.after > r.before
                                        /\ winCount < MaxTrades
                                     THEN winCount + 1 ELSE winCount
                    /\ lossCount' = IF trade /\ r.after < r.before
                                         /\ lossCount < MaxTrades
                                      THEN lossCount + 1 ELSE lossCount
       /\ winCount' # winCount \/ lossCount' # lossCount
             => \E r \in Pending : recordResult(r)]_vars

\* a winning and a losing trade were counted, and the result recorded last
\* was a failure
C37_Witness ==
    /\ winCount = 1
    /\ lossCount = 1
    /\ lastExecution = "failure"

----------------------------------------------------------------------------
\* C36: the launched-token list never holds more than 10 entries; it changes
\* only when a launch was answered, and then it is the last 10 entries of
\* the list with the new token appended: the oldest entry goes when the
\* list was full.
C36_LaunchedTokensKeepLastTen ==
    /\ [](Len(launchedTokens) <= 10)
    /\ [][/\ \A r \in Pending, t \in Tokens :
                 clientReturns(r, t) /\ r.op = "launch" =>
                     LET all == Append(launchedTokens, t)
                     IN launchedTokens' =
                            IF Len(all) <= 10 THEN all
                            ELSE SubSeq(all, Len(all) - 9, Len(all))
          /\ launchedTokens' # launchedTokens =>
                \E r \in Pending, t \in Tokens :
                    clientReturns(r, t) /\ r.op = "launch"]_vars

\* the list is full, its oldest entry differs from the others, and the
\* platform is about to answer one more launch
C36_Witness ==
    /\ Len(launchedTokens) = 10
    /\ launchedTokens[1] = "0xbbb"
    /\ \A i \in 2..10 : launchedTokens[i] = "0xaaa"
    /\ \E r \in Pending : r.pc = "client" /\ r.op = "launch"

\* C38: a decision with action stop is dispatched as a successful no-op.
\* The cycle's result is a success without an error, and no step of the
\* loop that carries it (the dispatch, the balance query, the recording, the
\* execution hooks) changes positions or launched tokens, clears the running
\* flag or ends the loop: the loop goes on to the sleep before its next
\* cycle.
C38_StopDecisionIsNoOp ==
    /\ [](\A r \in Pending : r.act = "stop" => r.ok /\ r.err = "none")
    /\ [][\A r \in Pending :
             \/ callModelReturns(r, Decision("stop", "none", "none", "none"))
             \/ /\ r.act = "stop"
                /\ r.pc \in {"balanceAfter", "record", "execHook"}
                /\ CopiesIn(r, loops') < CopiesIn(r, loops)
             => /\ UNCHANGED <<positions, launchedTokens, isRunning, status>>
                /\ BagCardinality(loops') = BagCardinality(loops)
                /\ \E q \in BagToSet(loops') :
                       /\ q.act = "stop"
                       /\ q.ok
                       /\ q.pc \in {"balanceAfter", "record", "execHook",
                                     "sleep"}
                       /\ CopiesIn(q, loops') > CopiesIn(q, loops)]_vars

\* the cycle of a stop decision is over while the agent runs and holds a
\* position
C38_Witness ==
    \E r \in Pending :
        /\ r.pc = "sleep"
        /\ r.act = "stop"
        /\ r.ok
        /\ isRunning
        /\ positions # <<>>

----------------------------------------------------------------------------
\* C39: whenever an iteration of the loop is completed (the loop sleeps for
\* the next interval), the interval mode getStatus() reports is the interval
\* mode of the agent state, which chose the length of that sleep.
C39_ReportedModeIsStateMode ==
    \A r \in Pending :
        r.pc = "sleep" => interval.reported = interval.mode

----------------------------------------------------------------------------
\* C40: a provider built with enableFallback false calls at most one model
\* in every callModel(): the error of the first model that fails is thrown,
\* whatever the retry counts earlier invocations left behind.
C40_NoSecondModelWithoutFallback ==
    (router.pc # "unbuilt" /\ ~router.enableFallback) => router.called <= 1

====
